---- MODULE Spec2Model ----
(***************************************************************************)
(* A model of pycallblock's modem engine (src/pycallblock/modem.py) and of *)
(* the parts of the policy layer (src/pycallblock/__init__.py) that drive  *)
(* it.                                                                     *)
(*                                                                         *)
(* The program is single-threaded asyncio code: the statements between two *)
(* awaits run atomically, so every action below is one such segment of a   *)
(* coroutine.  An await that may or may not suspend (a drain, a read whose *)
(* data is already buffered) is modelled as always giving the other tasks  *)
(* a chance to run; taking no step in between is the non-suspending case.  *)
(*                                                                         *)
(* Tasks of one kind (RX, TX, silence detector, playback consumer) run the *)
(* same coroutine and keep no local data the model needs, so the live      *)
(* tasks of a kind are a bag: a function from program location to the      *)
(* number of tasks at that location.                                       *)
(*                                                                         *)
(* Specifications:                                                         *)
(*   Spec         the Modem object used as a library for voice sessions:   *)
(*                one application coroutine calling set_mode,              *)
(*                start_voice_*, stop_voice, voice_end and send_audio_file *)
(*                in any order, the session tasks and the modem.           *)
(*   LoopSpec     the event loop task, its done callback, soft_reset,      *)
(*                stop_event_loop and close, next to receive sessions.     *)
(*   FairSession  one well-behaved caller (start, stop, voice_end, as      *)
(*                Callblock.block_call does) with the fairness the asyncio *)
(*                scheduler and a responsive modem give.                   *)
(*   SendSpec     the command engine (Modem.send) over the modem's line    *)
(*                stream, unsolicited lines included.                      *)
(*   FairLoop     the event loop task and stop_event_loop, with the        *)
(*                fairness of the asyncio scheduler.                       *)
(*   ModeSpec     set_mode over the command engine.                        *)
(*   CodecSpec    the RX task over the bytes of one receive session: the   *)
(*                removal of the <DLE> pairs and the audio written.        *)
(*   EventSpec    the classification of the events the event loop reads    *)
(*                and the callback each one triggers.                      *)
(*   TermSpec     one voice session started from an event callback that    *)
(*                returns while the session runs.                          *)
(*   DtmfSpec     the RX task over a stream of shielded codes: the DTMF    *)
(*                sequences and the dtmf_callback they dispatch.           *)
(*   PlaySpec     a transmitting session whose playback consumer runs next *)
(*                to the consumer of the session before it.                *)
(*   ParseSpec    the command engine over a stream in which the modem also *)
(*                sends lines that are no result code.                     *)
(*   TaskSpec     create_background_task and the set of background tasks.  *)
(*   BlockSpec    Callblock.call_callback for one delivered call: the      *)
(*                block reason, block_call over the Modem, and the log.    *)
(***************************************************************************)
EXTENDS Integers, Sequences, FiniteSets, TLC

(***************************************************************************)
(* Bounds of the model.                                                    *)
(***************************************************************************)
\* live tasks of one kind (RX, TX, SD, play_queue) at a time
MaxTasks == 1
\* items waiting in the playback queue
MaxQueue == 1
\* live dtmf_callback / silence_callback tasks
MaxCallbacks == 1
\* commands in one call of send
MaxCommands == 2
\* unsolicited lines the modem sends during one call of send
MaxUnsolicited == 2
\* bytes of voice data the modem sends in one receive session
MaxBytes == 4
\* shielded codes the modem sends in one receive session (DtmfSpec)
MaxCodes == 4
\* tasks made by create_background_task (TaskSpec)
MaxSpawns == 3

VARIABLES
    \* ---- fields of Modem (modem.py 254-272)
    state,             \* _state
    mode,              \* _mode
    stop_event,        \* _stop_event
    running,           \* _running
    event_loop,        \* _event_loop: "None" or "task"
    write_lock,        \* _write_lock: "free" or the kind of task holding it
    play_queue,        \* _play_queue: number of queued playback items
    silence,           \* _silence
    silence_seconds,   \* _silence_seconds: "None", "pos" or "neg" (suspended)
    callbacks,         \* whose hooks are installed: Modem's defaults or Callblock's
    \* ---- the transport
    waiter,            \* StreamReader's waiter: who is blocked in a transport read
    out_data,          \* the data handed to the transport and not yet drained
    lock_queue,        \* the tasks waiting for the write lock, first come first
    \* ---- the session tasks, bags over their program locations
    rx, tx, sd, pq,
    cb,                \* live dtmf_callback / silence_callback tasks
    \* ---- the event loop task
    el_pc, el_cancel, el_cb, el_origin,
    \* ---- the application coroutine calling the public methods
    c_op, c_pc, c_step, c_arg, c_ret, c_wake,
    c_codes,           \* the result codes a start_voice_* got for its commands
    \* ---- the command engine (SendSpec)
    s_pc,              \* where Modem.send is
    s_cmds,            \* its commands, commandified
    s_idx,             \* the command whose response is being read
    s_writes,          \* transport writes made by this send
    s_data,            \* read_until_result's data, as lines
    s_responses,       \* responses
    s_ret,             \* what send returned
    s_stream,          \* lines sent by the modem and not yet read
    m_pos,             \* lines the modem has sent for the commands
    m_issued,          \* the result code the modem issued for each command
    m_unsol,           \* unsolicited lines the modem has sent
    \* ---- the audio of one receive session at the level of bytes (CodecSpec)
    a_in,              \* the voice data the modem sends before its end of stream
    a_rest,            \* the part of it not yet read
    a_audio,           \* audio, the local of Modem._receive
    a_data,            \* data, the local of Modem._receive, during its reads
    a_codes,           \* the codes _catch_dsc has been called with
    a_last,            \* _last_dtmf
    a_dtmf,            \* the digits dtmf_callback has been called with
    \* ---- the dispatch of events (EventSpec)
    e_event,           \* event, the local of Modem.event_loop: the last event read
    \* ---- the set of background tasks (TaskSpec)
    b_tasks,           \* the tasks create_background_task has made, in order
    b_set,             \* _background_tasks: the tasks held, by their number
    \* ---- Callblock.call_callback and block_call (__init__.py 108-169)
    k_pc,              \* the statement of call_callback / block_call reached
    k_call,            \* the call delivered: is it private, is it on the list
    k_action,          \* _block_action
    k_file,            \* _audio_file
    k_private,         \* _block_private
    k_filter,          \* _filter_type
    k_voice,           \* the local `voice` of block_call
    k_vcid,            \* the modem's caller ID reporting, as the commands left it
    k_log              \* the rows of call_log, in the order of their INSERT

modemVars == <<state, mode, stop_event, running, event_loop,
               write_lock, play_queue, silence, silence_seconds, callbacks>>
ioVars == <<waiter, out_data, lock_queue>>
taskVars == <<rx, tx, sd, pq, cb>>
elVars == <<el_pc, el_cancel, el_cb, el_origin>>
callerVars == <<c_op, c_pc, c_step, c_arg, c_ret, c_wake, c_codes>>
sendVars == <<s_pc, s_cmds, s_idx, s_writes, s_data, s_responses, s_ret, s_stream,
              m_pos, m_issued, m_unsol>>
bgVars == <<b_tasks, b_set>>
policyVars == <<k_pc, k_call, k_action, k_file, k_private, k_filter, k_voice, k_vcid, k_log>>
codecVars == <<a_in, a_rest, a_audio, a_data, a_codes, a_last, a_dtmf>>
vars == <<modemVars, ioVars, taskVars, elVars, callerVars, sendVars, codecVars, bgVars, policyVars, e_event>>

(***************************************************************************)
(* Enumerations of modem.py.                                               *)
(***************************************************************************)
State == {"INITIALIZED", "WAITING_EVENT", "VOICE_COMMAND",
          "VOICE_RECEIVE", "VOICE_TRANSMIT", "VOICE_DUPLEX"}
VoiceStates == {"VOICE_RECEIVE", "VOICE_TRANSMIT", "VOICE_DUPLEX"}
Mode == {"DATA", "VOICE"}
ResultCode == {"OK", "CONNECT", "RING", "NO CARRIER", "ERROR", "DIGITAL LINE DETECTED"}
StopReasons == {"timeout", "exit", "stop", "busy"}
Kinds == {"RX", "TX", "SD", "play_queue", "event_loop", "callback"}

RxPcs == {"new", "read", "read_dle", "lockR", "lockD", "drain", "result"}
TxPcs == {"new", "fill_lock", "fill_drain", "sleep", "end_lock", "end_drain",
          "settle", "result"}
SdPcs == {"new", "sleep"}
PqPcs == {"new", "get", "lock", "drain", "sleep"}

\* what one read of the RX task decodes to
RxChunks == {"empty", "audio", "busy", "dtmf", "dle"}
\* result codes the modem ends a command with in Spec
Answers == {"OK", "CONNECT", "ERROR"}
\* result codes the modem ends a parameter setting (+VGR, +VGT) with
GainAnswers == {"OK", "ERROR"}
\* What the event loop reads while idle, as Event.from_bytes (modem.py
\* 161-170) sees it.  Data without " = " is kept as text: the line RING, the
\* pair <DLE>R, another shielded pair that get_dsc_label knows or does not
\* know, or some other text, of which only the words it contains matter.
\* Data with " = " is split into fields, of which only the keys matter, or
\* is broken: a part of it does not split in a key and a value.
Keys == {"DATE", "TIME", "MSG_WAITING", "NMBR"}
Words == {"DATE", "TIME", "MSG_WAITING"}
Events ==
    {[form |-> "text", text |-> t, keys |-> {}] :
         t \in {"RING", "DLE_R", "DLE_known", "DLE_unknown"}}
    \cup {[form |-> "text", text |-> "other", keys |-> K] : K \in SUBSET Words}
    \cup {[form |-> "fields", text |-> "", keys |-> K] : K \in (SUBSET Keys) \ {{}}}
    \cup {[form |-> "broken", text |-> "", keys |-> {}]}
NoEvent == [form |-> "none", text |-> "", keys |-> {}]

(***************************************************************************)
(* Faulty variants of definitions below.  Each property that is proved is  *)
(* also checked to fail on the model with one definition replaced by its   *)
(* faulty variant.                                                         *)
(***************************************************************************)
\* the duration and shutdown check clears the stop reason when neither applies
Faulty_TimeCheck(stopv, elapsed) ==
    IF elapsed THEN "timeout"
    ELSE IF ~running THEN "exit"
    ELSE "None"

\* start_voice_* without its mode check
Faulty_ModeIsVoice == TRUE

\* start_voice_* leaves the state in VOICE_COMMAND
Faulty_NewState(op) == "VOICE_COMMAND"

\* a write that does not wait for the lock
Faulty_CanAcquire == TRUE

\* a supervisor that restarts the loop unless it returned
Faulty_ShouldRestart(outcome) == outcome # "ok"

\* send collecting its responses last first
Faulty_Collect(responses, res) == <<res>> \o responses

\* voice_end returning as soon as a stop reason is set
Faulty_VoiceEnded == stop_event # "None"
Faulty_EndsWithDle(data) == FALSE

\* a done callback that keeps a task that did not end normally
Faulty_Discards(outcome) == outcome = "ok"

\* an event loop that does not catch the ValueError of Event.from_bytes
Faulty_Dispatch(e) ==
    IF e.form = "broken" THEN "raise"
    ELSE IF e.text = "RING" THEN "ring"
    ELSE "none"

(***************************************************************************)
(* Bags of tasks.                                                          *)
(***************************************************************************)
Mv(b, p, q) == IF p = q THEN b ELSE [b EXCEPT ![p] = @ - 1, ![q] = @ + 1]
Spawn(b) == [b EXCEPT !["new"] = @ + 1]
\* A task that returns (End) or raises (Fail) is done, and its done callback
\* (create_background_task, modem.py 768-777) logs the outcome and discards
\* it from _background_tasks; nothing else in the program looks at a done
\* task, so the task leaves the bag with its last step.
End(b, p) == [b EXCEPT ![p] = @ - 1]
Fail(b, p) == [b EXCEPT ![p] = @ - 1]

RECURSIVE SumOver(_, _)
SumOver(b, S) == IF S = {} THEN 0
                 ELSE LET p == CHOOSE x \in S : TRUE IN b[p] + SumOver(b, S \ {p})
Total(b) == SumOver(b, DOMAIN b)

(***************************************************************************)
(* Modem.write (modem.py 370-375): the lock is taken without suspending    *)
(* when it is free and nobody waits for it, the data is handed to the      *)
(* transport, and the lock is held until the drain is over.  asyncio.Lock  *)
(* serves its waiters first come first: lock_queue is their order.         *)
(***************************************************************************)
LockWaiters == rx["lockR"] + rx["lockD"] + tx["fill_lock"] + tx["end_lock"] + pq["lock"]
               + (IF c_pc = "w_lock" THEN 1 ELSE 0)
CanAcquire == write_lock = "free" /\ LockWaiters = 0
Draining == rx["drain"] + tx["fill_drain"] + tx["end_drain"] + pq["drain"]
            + (IF c_pc = "w_drain" THEN 1 ELSE 0)

\* the write of `data` by a task of kind `who`: TRUE when the lock was free
WriteNow(who, data) ==
    /\ write_lock' = who
    /\ out_data' = data
    /\ lock_queue' = lock_queue
WriteLater ==
    /\ UNCHANGED <<write_lock, out_data, lock_queue>>
\* the lock is held or somebody waits for it: the task joins the waiters
\* (asyncio.Lock.acquire appends its future to _waiters)
WriteWait(who) ==
    /\ lock_queue' = Append(lock_queue, who)
    /\ UNCHANGED <<write_lock, out_data>>
\* a task that waited for the lock gets it; release wakes the first waiter
\* only (asyncio.Lock._wake_up_first), so the waiters get it in their order
Acquire(who, data) ==
    /\ write_lock = "free"
    /\ lock_queue # <<>> /\ Head(lock_queue) = who
    /\ write_lock' = who
    /\ out_data' = data
    /\ lock_queue' = Tail(lock_queue)
\* the end of the drain releases the lock
Release(who) ==
    /\ write_lock = who
    /\ write_lock' = "free"
    /\ out_data' = "none"
    /\ lock_queue' = lock_queue


(***************************************************************************)
(* Modem.read (modem.py 344-348) on asyncio's StreamReader: a read with an *)
(* empty buffer registers the caller as the reader's single waiter, and a  *)
(* read by a second coroutine while one is waiting raises RuntimeError.    *)
(* w is the waiter seen by the coroutine that starts the read.             *)
(***************************************************************************)
ReadConflict(w) == w # "none"

(***************************************************************************)
(* The duration and shutdown check at the end of an iteration of the RX    *)
(* loop (modem.py 532-535) and of the TX loop (modem.py 563-566): an       *)
(* unconditional assignment.  elapsed: max_duration has passed.            *)
(***************************************************************************)
TimeCheck(stopv, elapsed) ==
    IF elapsed THEN "timeout"
    ELSE IF ~running THEN "exit"
    ELSE stopv

(***************************************************************************)
(* Modem._catch_dsc (modem.py 505-518) on the shielded codes of one chunk: *)
(* <DLE>b assigns "busy", whatever the stop reason was.                    *)
(***************************************************************************)
CatchDsc(stopv, chunk) == IF chunk = "busy" THEN "busy" ELSE stopv

(***************************************************************************)
(* Calling the installed hook to build the callback coroutine (modem.py    *)
(* 498 and 583).  Modem's own hooks take (dtmf) and (); Callblock's, set   *)
(* by Callblock.start (__init__.py 84-85), are declared dtmf_callback(self,*)
(* dtmf, call) and silence_callback(self, call) (__init__.py 180-185), so  *)
(* the call with one argument less raises TypeError in the calling task.   *)
(***************************************************************************)
HookRaises == callbacks = "Callblock"

(***************************************************************************)
(* The RX task: Modem._receive (modem.py 520-554).                         *)
(***************************************************************************)
RxTerminator == IF state = "VOICE_DUPLEX" THEN "END_DUPLEX" ELSE "END_RECORD"

\* the head of the loop and what follows it, up to the next await; w is the
\* reader's waiter once this task is not waiting itself
RxHead(from, stopv, w) ==
    IF stopv = "None"
    THEN /\ IF ReadConflict(w)
            THEN rx' = Fail(rx, from) /\ waiter' = w
            ELSE rx' = Mv(rx, from, "read") /\ waiter' = "rx"
         /\ WriteLater
    ELSE /\ waiter' = w
         /\ IF state # "VOICE_TRANSMIT"
            THEN IF CanAcquire
                 THEN rx' = Mv(rx, from, "drain") /\ WriteNow("rx", RxTerminator)
                 ELSE /\ rx' = Mv(rx, from, IF state = "VOICE_DUPLEX" THEN "lockD" ELSE "lockR")
                      /\ WriteWait("rx")
            ELSE rx' = End(rx, from) /\ WriteLater

rxOthers == <<mode, running, event_loop, play_queue, silence_seconds, callbacks,
              tx, sd, pq, elVars, callerVars, sendVars, codecVars, bgVars, policyVars, e_event>>

RxStart ==
    /\ rx["new"] > 0
    /\ RxHead("new", stop_event, waiter)
    /\ UNCHANGED <<state, stop_event, silence, cb, rxOthers>>

\* lines 528-535 on the data of one iteration, then the head of the loop
RxProcess(from, chunk, elapsed, sil) ==
    IF chunk = "dtmf" /\ HookRaises
    THEN \* _catch_dtmf's call of the hook raises out of re.sub and _receive
         /\ rx' = Fail(rx, from)
         /\ waiter' = "none"
         /\ UNCHANGED <<stop_event, silence, cb, write_lock, out_data, lock_queue>>
    ELSE /\ chunk = "dtmf" => cb < MaxCallbacks
         /\ cb' = IF chunk = "dtmf" THEN cb + 1 ELSE cb
         /\ silence' = sil
         /\ stop_event' = TimeCheck(CatchDsc(stop_event, chunk), elapsed)
         /\ RxHead(from, stop_event', "none")

\* the timed read of line 525 returns (empty on its timeout)
RxReadEnd(chunk, elapsed, sil) ==
    /\ rx["read"] > 0
    /\ sil => chunk = "audio"
    /\ IF chunk = "dle"
       THEN \* line 526-527: the data ends with <DLE>, read on without a timeout
            /\ rx' = Mv(rx, "read", "read_dle")
            /\ UNCHANGED <<stop_event, silence, cb, waiter, write_lock,
                           out_data, lock_queue>>
       ELSE RxProcess("read", chunk, elapsed, sil)
    /\ UNCHANGED <<state, rxOthers>>

\* the untimed read of line 527 returns data that does not end with <DLE>
RxDleReadEnd(chunk, elapsed, sil) ==
    /\ rx["read_dle"] > 0
    /\ chunk \notin {"dle", "empty"}
    /\ sil => chunk = "audio"
    /\ RxProcess("read_dle", chunk, elapsed, sil)
    /\ UNCHANGED <<state, rxOthers>>

RxAcquire(p) ==
    /\ rx[p] > 0
    /\ Acquire("rx", IF p = "lockD" THEN "END_DUPLEX" ELSE "END_RECORD")
    /\ rx' = Mv(rx, p, "drain")
    /\ UNCHANGED <<state, stop_event, silence, cb, waiter, rxOthers>>

\* line 538 is over, line 539 starts reading the result
RxDrainEnd ==
    /\ rx["drain"] > 0
    /\ Release("rx")
    /\ IF ReadConflict(waiter)
       THEN rx' = Fail(rx, "drain") /\ waiter' = waiter
       ELSE rx' = Mv(rx, "drain", "result") /\ waiter' = "rx"
    /\ UNCHANGED <<state, stop_event, silence, cb, rxOthers>>

\* lines 539-554: the result code has arrived
RxResultEnd ==
    /\ rx["result"] > 0
    /\ waiter' = "none"
    /\ state' = "VOICE_COMMAND"
    /\ rx' = End(rx, "result")
    /\ UNCHANGED <<stop_event, silence, cb, write_lock,
                   out_data, lock_queue, rxOthers>>

(***************************************************************************)
(* The TX task: Modem._transmit (modem.py 556-573).                        *)
(***************************************************************************)
txOthers == <<mode, running, event_loop, play_queue, silence, silence_seconds,
              callbacks, rx, sd, pq, cb, elVars, callerVars, sendVars, codecVars, bgVars, policyVars, e_event>>

\* the head of the loop; low: out_waiting is below half a second of audio
TxLoop(from, low, elapsed) ==
    /\ tx[from] > 0
    /\ IF stop_event = "None"
       THEN IF low
            THEN /\ IF CanAcquire
                    THEN tx' = Mv(tx, from, "fill_drain") /\ WriteNow("tx", "filler")
                    ELSE tx' = Mv(tx, from, "fill_lock") /\ WriteWait("tx")
                 /\ stop_event' = stop_event
            ELSE /\ tx' = Mv(tx, from, "sleep")
                 /\ stop_event' = TimeCheck(stop_event, elapsed)
                 /\ WriteLater
       ELSE /\ stop_event' = stop_event
            /\ IF state = "VOICE_TRANSMIT"
               THEN IF CanAcquire
                    THEN tx' = Mv(tx, from, "end_drain") /\ WriteNow("tx", "END_STREAM")
                    ELSE tx' = Mv(tx, from, "end_lock") /\ WriteWait("tx")
               ELSE tx' = End(tx, from) /\ WriteLater
    /\ UNCHANGED <<state, waiter, txOthers>>

TxStart(low, elapsed) == TxLoop("new", low, elapsed)

\* the sleep of line 567 is over
TxSleepEnd(low, elapsed) == TxLoop("sleep", low, elapsed)

TxFillAcquire ==
    /\ tx["fill_lock"] > 0
    /\ Acquire("tx", "filler")
    /\ tx' = Mv(tx, "fill_lock", "fill_drain")
    /\ UNCHANGED <<state, stop_event, waiter, txOthers>>

\* line 562 is over: lines 563-567
TxFillDrainEnd(elapsed) ==
    /\ tx["fill_drain"] > 0
    /\ Release("tx")
    /\ stop_event' = TimeCheck(stop_event, elapsed)
    /\ tx' = Mv(tx, "fill_drain", "sleep")
    /\ UNCHANGED <<state, waiter, txOthers>>

TxEndAcquire ==
    /\ tx["end_lock"] > 0
    /\ Acquire("tx", "END_STREAM")
    /\ tx' = Mv(tx, "end_lock", "end_drain")
    /\ UNCHANGED <<state, stop_event, waiter, txOthers>>

\* line 570 is over, line 571 sleeps half a second
TxEndDrainEnd ==
    /\ tx["end_drain"] > 0
    /\ Release("tx")
    /\ tx' = Mv(tx, "end_drain", "settle")
    /\ UNCHANGED <<state, stop_event, waiter, txOthers>>

\* The half second of line 571 is over and line 572 starts reading.  An RX
\* task in its timed read (0.2 s), or reading the second byte of a shielded
\* pair, that will find the stop reason set has left the read by then: that
\* is what the sleep is for.
TxSettleEnd ==
    /\ tx["settle"] > 0
    /\ ~(stop_event # "None" /\ rx["read"] + rx["read_dle"] > 0)
    /\ IF ReadConflict(waiter)
       THEN tx' = Fail(tx, "settle") /\ waiter' = waiter
       ELSE tx' = Mv(tx, "settle", "result") /\ waiter' = "tx"
    /\ UNCHANGED <<state, stop_event, write_lock, out_data, lock_queue, txOthers>>

\* lines 572-573
TxResultEnd ==
    /\ tx["result"] > 0
    /\ waiter' = "none"
    /\ state' = "VOICE_COMMAND"
    /\ tx' = End(tx, "result")
    /\ UNCHANGED <<stop_event, write_lock, out_data, lock_queue, txOthers>>


(***************************************************************************)
(* The silence detector: Modem._silence_detection (modem.py 575-585).      *)
(* fire: the silence has lasted longer than the threshold.                 *)
(***************************************************************************)
sdOthers == <<state, mode, stop_event, running, event_loop, write_lock, play_queue,
              silence, silence_seconds, callbacks, ioVars, rx, tx, pq,
              elVars, callerVars, sendVars, codecVars, bgVars, policyVars, e_event>>

\* line 579: the detection is on for a positive threshold only
SdOn == silence_seconds = "pos"

SdLoop(from, fire) ==
    /\ sd[from] > 0
    /\ fire => silence /\ SdOn
    /\ IF stop_event = "None"
       THEN IF fire
            THEN IF HookRaises
                 THEN sd' = Fail(sd, from) /\ UNCHANGED <<cb>>
                 ELSE /\ cb < MaxCallbacks
                      /\ cb' = cb + 1
                      /\ sd' = Mv(sd, from, "sleep")
            ELSE sd' = Mv(sd, from, "sleep") /\ UNCHANGED <<cb>>
       ELSE sd' = End(sd, from) /\ UNCHANGED <<cb>>
    /\ UNCHANGED sdOthers

SdStart(fire) == SdLoop("new", fire)

SdSleepEnd(fire) == SdLoop("sleep", fire)

\* a dtmf_callback or silence_callback task runs to its end and is discarded
CallbackFinish ==
    /\ cb > 0
    /\ cb' = cb - 1
    /\ UNCHANGED <<sd, sdOthers>>

(***************************************************************************)
(* The playback consumer: Modem._play_queue_consumer (modem.py 631-644).   *)
(***************************************************************************)
pqOthers == <<state, mode, stop_event, running, event_loop, silence, callbacks,
              waiter, rx, tx, sd, cb, elVars, callerVars, sendVars, codecVars, bgVars, policyVars, e_event>>

\* line 632 with q items in the queue
PqHead(from, q) ==
    IF stop_event = "None" \/ q > 0
    THEN pq' = Mv(pq, from, "get")
    ELSE pq' = End(pq, from)

Suspended(sec) == IF sec = "None" THEN "None" ELSE "neg"
Resumed(sec) == IF sec = "None" THEN "None" ELSE "pos"

PqStart ==
    /\ pq["new"] > 0
    /\ PqHead("new", play_queue)
    /\ UNCHANGED <<play_queue, silence_seconds, write_lock, out_data, lock_queue, pqOthers>>

\* line 634 returns an item, or times out after a second on an empty queue
PqGet ==
    /\ pq["get"] > 0
    /\ IF play_queue > 0
       THEN /\ play_queue' = play_queue - 1
            /\ IF stop_event = "None"
               THEN /\ silence_seconds' = Suspended(silence_seconds)
                    /\ IF CanAcquire
                       THEN pq' = Mv(pq, "get", "drain") /\ WriteNow("pq", "audio")
                       ELSE pq' = Mv(pq, "get", "lock") /\ WriteWait("pq")
               ELSE /\ PqHead("get", play_queue')
                    /\ WriteLater
                    /\ UNCHANGED silence_seconds
       ELSE /\ stop_event # "None"
            /\ PqHead("get", play_queue)
            /\ WriteLater
            /\ UNCHANGED <<play_queue, silence_seconds>>
    /\ UNCHANGED <<pqOthers>>

PqAcquire ==
    /\ pq["lock"] > 0
    /\ Acquire("pq", "audio")
    /\ pq' = Mv(pq, "lock", "drain")
    /\ UNCHANGED <<play_queue, silence_seconds, pqOthers>>

\* line 641 is over, line 642 sleeps for the duration of the item
PqDrainEnd ==
    /\ pq["drain"] > 0
    /\ Release("pq")
    /\ pq' = Mv(pq, "drain", "sleep")
    /\ UNCHANGED <<play_queue, silence_seconds, pqOthers>>

\* lines 643-644, then the head of the loop
PqSleepEnd ==
    /\ pq["sleep"] > 0
    /\ silence_seconds' = Resumed(silence_seconds)
    /\ PqHead("sleep", play_queue)
    /\ UNCHANGED <<play_queue, write_lock, out_data, lock_queue, pqOthers>>

(***************************************************************************)
(* The event loop task: Modem.event_loop (modem.py 740-765), started by    *)
(* Modem.start_event_loop (modem.py 719-729).                              *)
(*   new             created, not yet run                                  *)
(*   read            blocked in the read of line 745, in WAITING_EVENT     *)
(*   callback        awaiting the ring, call or message callback           *)
(*   done_ok/_exc/_cancelled   ended, its done callbacks not yet run       *)
(*   dead_ok/_cancelled        ended and its done callbacks run            *)
(***************************************************************************)
ElLive == {"new", "read", "callback"}
ElDone == {"done_ok", "done_exc", "done_cancelled"}
ElOutcome == [done_ok |-> "ok", done_exc |-> "exc", done_cancelled |-> "cancelled"]

elOthers == <<mode, stop_event, running, event_loop, write_lock, play_queue,
              silence, silence_seconds, callbacks, out_data, lock_queue, taskVars,
              callerVars, sendVars, codecVars, bgVars, policyVars>>

\* lines 741-745: the head of the loop, up to the read
ElHead(w) ==
    IF ~running
    THEN el_pc' = "done_ok" /\ waiter' = w /\ UNCHANGED state
    ELSE /\ state' = "WAITING_EVENT"
         /\ IF ReadConflict(w)
            THEN el_pc' = "done_exc" /\ waiter' = w
            ELSE el_pc' = "read" /\ waiter' = "el"

\* the first step of the task; a cancellation requested before it ends the task
ElStart ==
    /\ el_pc = "new"
    /\ IF el_cancel
       THEN el_pc' = "done_cancelled" /\ el_cancel' = FALSE /\ UNCHANGED <<state, waiter>>
       ELSE ElHead(waiter) /\ UNCHANGED el_cancel
    /\ UNCHANGED <<el_cb, el_origin, elOthers, e_event>>

\* Event.is_ring (modem.py 140-147): the text is the result code RING or <DLE>R
IsRing(e) == e.form = "text" /\ e.text \in {"RING", "DLE_R"}

\* Event.is_message_event (149-151): "MSG_WAITING" in data, a key of the
\* fields or a word of the text
IsMessageEvent(e) == "MSG_WAITING" \in e.keys

\* Event.is_call (153-155)
IsCall(e) == "DATE" \in e.keys /\ "TIME" \in e.keys /\ ~IsMessageEvent(e)

\* Event.is_shielded_code (157-159): len(data) == 2 and data.startswith(DLE);
\* two fields have length 2 and no startswith (AttributeError)
IsShieldedCode(e) ==
    IF e.form = "fields"
    THEN IF Cardinality(e.keys) = 2 THEN "raise" ELSE "no"
    ELSE IF e.text \in {"DLE_R", "DLE_known", "DLE_unknown"} THEN "yes" ELSE "no"

\* lines 750-765 on the data of one event: the callback awaited, "none" when
\* the event is only logged, "raise" when an exception leaves the loop
Dispatch(e) ==
    IF e.form = "broken" THEN "none"
    ELSE IF IsRing(e) THEN "ring"
    ELSE IF IsCall(e)
         THEN \* Call.from_event (110-111) calls event.data.get
              IF e.form = "fields" THEN "call" ELSE "raise"
    ELSE IF IsMessageEvent(e) THEN "mesg"
    ELSE IF IsShieldedCode(e) = "raise" THEN "raise"
    ELSE IF IsShieldedCode(e) = "yes"
         THEN \* line 763 concatenates the label, None for an unknown code
              IF e.text = "DLE_unknown" THEN "raise" ELSE "none"
    ELSE "none"

\* line 756-761: the events that have a callback
HasCallback(d) == d \in {"ring", "call", "mesg"}

\* lines 745-765: the read returns an event
ElRead(ev) ==
    /\ el_pc = "read"
    /\ ~el_cancel
    /\ IF HasCallback(Dispatch(ev))
       THEN /\ el_pc' = "callback"
            /\ el_cb' = Dispatch(ev)
            /\ waiter' = "none"
            /\ UNCHANGED state
       ELSE IF Dispatch(ev) = "raise"
       THEN /\ el_pc' = "done_exc"
            /\ waiter' = "none"
            /\ UNCHANGED <<state, el_cb>>
       ELSE \* the event is logged and the loop goes on
            /\ ElHead("none")
            /\ UNCHANGED el_cb
    /\ UNCHANGED <<el_cancel, el_origin, elOthers>>

ElReadEnd(ev) == ElRead(ev) /\ UNCHANGED e_event

\* CancelledError is thrown into the task: caught at line 746 (break, the task
\* returns), uncaught inside a callback
ElCancelled ==
    /\ el_cancel
    /\ el_pc \in {"read", "callback"}
    /\ el_cancel' = FALSE
    /\ IF el_pc = "read"
       THEN el_pc' = "done_ok" /\ waiter' = "none" /\ UNCHANGED el_cb
       ELSE el_pc' = "done_cancelled" /\ el_cb' = "none" /\ UNCHANGED waiter
    /\ UNCHANGED <<state, el_origin, elOthers, e_event>>

ElCallbackReturn ==
    /\ el_pc = "callback"
    /\ ~el_cancel
    /\ el_cb' = "none"
    /\ ElHead(waiter)
    /\ UNCHANGED <<el_cancel, el_origin, elOthers, e_event>>

\* the callback raises: nothing in event_loop catches it
ElCallbackRaise ==
    /\ el_pc = "callback"
    /\ ~el_cancel
    /\ el_pc' = "done_exc"
    /\ el_cb' = "none"
    /\ UNCHANGED <<state, waiter, el_cancel, el_origin, elOthers, e_event>>

\* done_callback of start_event_loop (modem.py 724-727)
ShouldRestart(outcome) == outcome = "exc"

\* The done callbacks of the ended task, in the order they were added: that of
\* create_background_task (768-777), then that of start_event_loop (724-727);
\* a coroutine awaiting the task is woken after them.
ElDoneCallbacks ==
    /\ el_pc \in ElDone
    /\ IF ShouldRestart(ElOutcome[el_pc])
       THEN /\ event_loop' = "task"
            /\ el_pc' = "new"
            /\ el_origin' = "restart"
       ELSE /\ el_pc' = IF event_loop = "None" THEN "none"
                        ELSE IF el_pc = "done_ok" THEN "dead_ok"
                        ELSE IF el_pc = "done_exc" THEN "dead_exc"
                        ELSE "dead_cancelled"
            /\ UNCHANGED <<event_loop, el_origin>>
    /\ c_wake' = IF c_pc = "await_loop" THEN ElOutcome[el_pc] ELSE c_wake
    /\ UNCHANGED <<state, mode, stop_event, running, write_lock, play_queue, silence,
                   silence_seconds, callbacks, ioVars, taskVars,
                   el_cancel, el_cb, c_op, c_pc, c_step, c_arg, c_codes, c_ret, sendVars, codecVars, bgVars, policyVars, e_event>>

(***************************************************************************)
(* The application coroutine.  It calls one public method of Modem at a    *)
(* time; c_op is the method, c_pc where it is suspended in it:             *)
(*   w_lock     in Modem.write, waiting for the write lock                 *)
(*   w_drain    in Modem.write, draining                                   *)
(*   r_wait     in Modem.read_until_result, blocked in the transport read  *)
(*   voice_end  in the sleep of Modem.voice_end                            *)
(*   await_loop in stop_event_loop, awaiting the event loop task           *)
(*   returned   the method has returned c_ret ("raise": it raised)         *)
(***************************************************************************)
StartOps == {"start_voice_receive", "start_voice_duplex", "start_voice_transmit"}
ResetOps == {"soft_reset", "close"}

\* the first statement of start_voice_* (lines 588, 601, 617)
ModeIsVoice == mode = "VOICE"

\* the state a start_voice_* sets (lines 595, 608, 624)
NewState(op) == IF op = "start_voice_receive" THEN "VOICE_RECEIVE"
                ELSE IF op = "start_voice_duplex" THEN "VOICE_DUPLEX"
                ELSE "VOICE_TRANSMIT"

\* the tasks a start_voice_* creates (lines 597, 610-613, 626-628)
Creates(op, k) ==
    \/ k = "RX"
    \/ k = "TX" /\ op # "start_voice_receive"
    \/ k = "SD" /\ op = "start_voice_duplex"
    \/ k = "play_queue" /\ op # "start_voice_receive"

Return(ret) ==
    /\ c_pc' = "returned"
    /\ c_ret' = ret

\* Modem.send up to its write (lines 387-391)
BeginSend ==
    IF CanAcquire
    THEN c_pc' = "w_drain" /\ WriteNow("caller", "command")
    ELSE c_pc' = "w_lock" /\ WriteWait("caller")

Call(op, arg) ==
    /\ c_pc = "idle"
    /\ c_op' = op
    /\ c_arg' = arg
    /\ c_codes' = <<>>
    /\ c_step' = 1

callOthers == <<state, stop_event, running, event_loop, play_queue, silence,
                silence_seconds, callbacks, waiter, taskVars, elVars, c_wake, sendVars, codecVars, bgVars, policyVars, e_event>>

\* start_voice_receive / _duplex / _transmit up to the first write
StartVoice(op) ==
    /\ op \in StartOps
    /\ Call(op, "none")
    /\ Total(rx) < MaxTasks
    /\ Creates(op, "TX") => Total(tx) < MaxTasks
    /\ Creates(op, "SD") => Total(sd) < MaxTasks
    /\ Creates(op, "play_queue") => Total(pq) < MaxTasks
    /\ IF ~ModeIsVoice
       THEN Return("False") /\ WriteLater
       ELSE BeginSend /\ UNCHANGED c_ret
    /\ UNCHANGED <<mode, callOthers>>

\* set_mode (449-466), soft_reset (409-414) up to the first write
SetMode(m) ==
    /\ m \in Mode
    /\ Call("set_mode", m)
    /\ BeginSend
    /\ UNCHANGED <<c_ret, mode, callOthers>>

SoftReset ==
    /\ Call("soft_reset", "none")
    /\ BeginSend
    /\ UNCHANGED <<c_ret, mode, callOthers>>

CallerAcquire ==
    /\ c_pc = "w_lock"
    /\ Acquire("caller", "command")
    /\ c_pc' = "w_drain"
    /\ UNCHANGED <<c_op, c_arg, c_codes, c_step, c_ret, mode, callOthers>>

\* the drain is over; read_until_result starts reading (line 353)
CallerDrainEnd ==
    /\ c_pc = "w_drain"
    /\ Release("caller")
    /\ IF ReadConflict(waiter)
       THEN Return("raise") /\ UNCHANGED waiter
       ELSE c_pc' = "r_wait" /\ waiter' = "caller" /\ UNCHANGED c_ret
    /\ UNCHANGED <<c_op, c_arg, c_codes, c_step, mode, state, stop_event, running, event_loop,
                   play_queue, silence, silence_seconds, callbacks,
                   taskVars, elVars, c_wake, sendVars, codecVars, bgVars, policyVars, e_event>>

readOthers == <<running, event_loop, play_queue, silence, silence_seconds, callbacks,
                cb, elVars, c_wake, sendVars, codecVars, bgVars, policyVars, e_event>>

\* the gain command of start_voice_* is answered with r; the response is
\* dropped (lines 591, 604, 620)
GainEnd(r) ==
    /\ r \in GainAnswers
    /\ c_pc = "r_wait" /\ c_op \in StartOps /\ c_step = 1
    /\ waiter' = "none"
    /\ c_step' = 2
    /\ c_codes' = Append(c_codes, r)
    /\ BeginSend
    /\ UNCHANGED <<c_op, c_arg, c_ret, state, mode, stop_event,
                   rx, tx, sd, pq, readOthers>>

\* +VRX, +VTR or +VTX is answered with r (lines 592-598, 605-614, 621-629)
StartEnd(r) ==
    /\ c_pc = "r_wait" /\ c_op \in StartOps /\ c_step = 2
    /\ waiter' = "none"
    /\ c_codes' = Append(c_codes, r)
    /\ IF r # "CONNECT"
       THEN /\ Return("False")
            /\ UNCHANGED <<state, stop_event, rx, tx, sd, pq>>
       ELSE /\ state' = NewState(c_op)
            /\ stop_event' = "None"
            /\ rx' = Spawn(rx)
            /\ tx' = IF Creates(c_op, "TX") THEN Spawn(tx) ELSE tx
            /\ sd' = IF Creates(c_op, "SD") THEN Spawn(sd) ELSE sd
            /\ pq' = IF Creates(c_op, "play_queue") THEN Spawn(pq) ELSE pq
            /\ Return("True")
    /\ UNCHANGED <<c_op, c_arg, c_step, mode, write_lock, out_data, lock_queue, readOthers>>

\* +FCLASS=<mode> is answered with r (lines 460-466)
SetModeEnd(r) ==
    /\ c_pc = "r_wait" /\ c_op = "set_mode"
    /\ waiter' = "none"
    /\ IF r = "OK"
       THEN mode' = c_arg /\ Return("True")
       ELSE Return("False") /\ UNCHANGED mode
    /\ UNCHANGED <<c_op, c_arg, c_codes, c_step, state, stop_event, write_lock,
                   out_data, lock_queue, rx, tx, sd, pq, readOthers>>

\* ATZ is answered (line 410); get_mode sends +FCLASS? (line 447)
ResetSent ==
    /\ c_pc = "r_wait" /\ c_op \in ResetOps /\ c_step = 1
    /\ waiter' = "none"
    /\ c_step' = 2
    /\ BeginSend
    /\ UNCHANGED <<c_op, c_arg, c_codes, c_ret, state, mode, stop_event,
                   rx, tx, sd, pq, readOthers>>

\* +FCLASS? is answered with r and, when r is OK, the mode m (lines 411-414);
\* any other answer carries no mode and Mode(None) raises ValueError
ResetEnd(r, m) ==
    /\ c_pc = "r_wait" /\ c_op \in ResetOps /\ c_step = 2
    /\ m \in Mode
    /\ waiter' = "none"
    /\ IF r = "OK"
       THEN /\ mode' = m
            /\ state' = "INITIALIZED"
            /\ IF c_op = "close"
               THEN c_pc' = "closed" /\ UNCHANGED c_ret
               ELSE Return("None")
       ELSE Return("raise") /\ UNCHANGED <<mode, state>>
    /\ UNCHANGED <<c_op, c_arg, c_codes, c_step, stop_event, write_lock,
                   out_data, lock_queue, rx, tx, sd, pq, readOthers>>

simpleOthers == <<mode, running, write_lock, silence, silence_seconds,
                  callbacks, ioVars, taskVars, c_wake, sendVars, codecVars, bgVars, policyVars, e_event>>

\* stop_voice (lines 681-682)
StopVoice ==
    /\ Call("stop_voice", "none")
    /\ stop_event' = "stop"
    /\ Return("None")
    /\ UNCHANGED <<state, event_loop, play_queue, elVars, simpleOthers>>

\* voice_end (lines 684-687)
VoiceEnd ==
    /\ Call("voice_end", "none")
    /\ IF state \in VoiceStates
       THEN c_pc' = "voice_end" /\ UNCHANGED c_ret
       ELSE Return("None")
    /\ UNCHANGED <<state, stop_event, event_loop, play_queue, elVars, simpleOthers>>

\* line 686: the condition that ends the polling
VoiceEnded == state = "VOICE_COMMAND"

\* the sleep of line 687 is over and the loop condition is tested again;
\* c_step tells a return after polling from an immediate one
VoiceEndPoll ==
    /\ c_pc = "voice_end"
    /\ VoiceEnded
    /\ c_step' = 2
    /\ Return("None")
    /\ UNCHANGED <<c_op, c_arg, c_codes, state, stop_event, event_loop, play_queue,
                   elVars, simpleOthers>>

\* send_audio_file (lines 646-666).  The file is None, does not exist, is
\* not in the RIFF/WAVE format, is too short to hold a chunk header (empty),
\* or is a WAV file.
Files == {"none", "missing", "invalid", "empty", "wav"}

\* wave.open (line 654): FileNotFoundError for a missing file, wave.Error for
\* a file in another format, EOFError for a file that ends inside the first
\* chunk header
WaveOpen(file) ==
    IF file = "missing" THEN "FileNotFoundError"
    ELSE IF file = "invalid" THEN "wave.Error"
    ELSE IF file = "empty" THEN "EOFError"
    ELSE "opened"

SendAudioFile(file) ==
    /\ file \in Files
    /\ Call("send_audio_file", file)
    /\ IF file = "none" \/ state \notin {"VOICE_TRANSMIT", "VOICE_DUPLEX"}
       THEN Return("False") /\ UNCHANGED play_queue
       ELSE IF WaveOpen(file) \in {"FileNotFoundError", "wave.Error"}
       THEN Return("False") /\ UNCHANGED play_queue
       ELSE IF WaveOpen(file) # "opened"
       THEN \* no except clause of lines 655-660 matches
            Return("raise") /\ UNCHANGED play_queue
       ELSE /\ play_queue < MaxQueue
            /\ play_queue' = play_queue + 1
            /\ Return("True")
    /\ UNCHANGED <<state, stop_event, event_loop, elVars, simpleOthers>>

\* start_event_loop (lines 719-729)
StartEventLoop ==
    /\ Call("start_event_loop", "none")
    /\ IF event_loop # "None"
       THEN UNCHANGED <<event_loop, el_pc, el_origin>>
       ELSE /\ el_pc = "none"
            /\ event_loop' = "task"
            /\ el_pc' = "new"
            /\ el_origin' = "start"
    /\ Return("None")
    /\ UNCHANGED <<state, mode, stop_event, running, write_lock, play_queue, silence,
                   silence_seconds, callbacks, ioVars, taskVars, el_cancel, el_cb,
                   c_wake, sendVars, codecVars, bgVars, policyVars, e_event>>

\* stop_event_loop from line 735 on, for a loop task that exists: the cancel
\* and the await.  Awaiting a task that has ended returns or raises at once.
StopLoop(next) ==
    /\ el_cancel' = (el_cancel \/ (state = "WAITING_EVENT" /\ el_pc \in ElLive))
    /\ IF el_pc \in {"done_ok", "dead_ok"}
       THEN /\ event_loop' = "None"
            /\ el_pc' = IF el_pc = "dead_ok" THEN "none" ELSE el_pc
            /\ next
       ELSE IF el_pc \in ElLive
       THEN /\ c_pc' = "await_loop"
            /\ WriteLater
            /\ UNCHANGED <<event_loop, el_pc, c_ret>>
       ELSE /\ Return("raise")
            /\ WriteLater
            /\ UNCHANGED <<event_loop, el_pc>>

stopOthers == <<state, mode, stop_event, play_queue, silence, silence_seconds,
                callbacks, waiter, taskVars, el_cb, el_origin, c_wake, sendVars, codecVars, bgVars, policyVars, e_event>>

\* stop_event_loop (lines 731-738)
StopEventLoop ==
    /\ Call("stop_event_loop", "none")
    /\ IF event_loop = "None"
       THEN Return("None") /\ WriteLater /\ UNCHANGED <<event_loop, el_pc, el_cancel>>
       ELSE StopLoop(Return("None") /\ WriteLater)
    /\ UNCHANGED <<running, stopOthers>>

\* close (lines 336-342) up to its first suspension
Close ==
    /\ Call("close", "none")
    /\ running' = FALSE
    /\ IF event_loop = "None"
       THEN BeginSend /\ UNCHANGED <<event_loop, el_pc, el_cancel, c_ret>>
       ELSE StopLoop(BeginSend /\ UNCHANGED c_ret)
    /\ UNCHANGED stopOthers

\* the awaited event loop task has ended and its done callbacks have run
AwaitLoopEnd ==
    /\ c_pc = "await_loop"
    /\ c_wake # "none"
    /\ c_wake' = "none"
    /\ IF c_wake = "ok"
       THEN /\ event_loop' = "None"
            /\ el_pc' = "none"
            /\ IF c_op = "close"
               THEN BeginSend /\ UNCHANGED c_ret
               ELSE Return("None") /\ WriteLater
       ELSE /\ Return("raise")
            /\ WriteLater
            /\ UNCHANGED <<event_loop, el_pc>>
    /\ UNCHANGED <<c_op, c_arg, c_codes, c_step, state, mode, stop_event, running,
                   play_queue, silence, silence_seconds, callbacks, waiter, taskVars,
                   el_cancel, el_cb, el_origin, sendVars, codecVars, bgVars, policyVars, e_event>>

\* the application looks at what the method returned and goes on
Resume ==
    /\ c_pc = "returned"
    /\ c_pc' = "idle"
    /\ c_op' = "none"
    /\ c_arg' = "none"
    /\ c_codes' = <<>>
    /\ c_ret' = "none"
    /\ c_step' = 0
    /\ UNCHANGED <<modemVars, ioVars, taskVars, elVars, c_wake, sendVars, codecVars, bgVars, policyVars, e_event>>

(***************************************************************************)
(* The Modem after open() (modem.py 254-272 and 316-334): soft_reset has   *)
(* left the state INITIALIZED, no session and no event loop exist.         *)
(***************************************************************************)
NoTasks(pcs) == [p \in pcs |-> 0]

ModemFields ==
    /\ state = "INITIALIZED"
    /\ mode = "DATA"
    /\ stop_event = "None"
    /\ running = TRUE
    /\ event_loop = "None"
    /\ write_lock = "free" /\ lock_queue = <<>>
    /\ play_queue = 0
    /\ silence = FALSE
    /\ silence_seconds = "pos"
    /\ callbacks \in {"Modem", "Callblock"}
    /\ waiter = "none"
    /\ out_data = "none"

NoSession ==
    /\ rx = NoTasks(RxPcs) /\ tx = NoTasks(TxPcs)
    /\ sd = NoTasks(SdPcs) /\ pq = NoTasks(PqPcs)
    /\ cb = 0
    /\ el_pc = "none" /\ el_cancel = FALSE /\ el_cb = "none" /\ el_origin = "none"

CallerIdle ==
    /\ c_op = "none" /\ c_pc = "idle" /\ c_step = 0 /\ c_arg = "none" /\ c_codes = <<>>
    /\ c_ret = "none" /\ c_wake = "none"

ModemInit == ModemFields /\ NoSession /\ CallerIdle

SendOff ==
    /\ s_pc = "off"
    /\ s_cmds = <<>>
    /\ s_idx = 0
    /\ s_writes = 0
    /\ s_data = <<>>
    /\ s_responses = <<>>
    /\ s_ret = <<>>
    /\ s_stream = <<>>
    /\ m_pos = 0
    /\ m_issued = <<>>
    /\ m_unsol = 0

BgOff ==
    /\ b_tasks = <<>>
    /\ b_set = {}

PolicyOff ==
    /\ k_pc = "off"
    /\ k_call = [number |-> TRUE, private |-> FALSE, in_list |-> FALSE]
    /\ k_action = "None"
    /\ k_file = "none"
    /\ k_private = FALSE
    /\ k_filter = "BLACKLIST"
    /\ k_voice = FALSE
    /\ k_vcid = "on"
    /\ k_log = <<>>

CodecOff ==
    /\ a_in = <<>>
    /\ a_rest = <<>>
    /\ a_audio = <<>>
    /\ a_data = <<>>
    /\ a_codes = <<>>
    /\ a_last = "None"
    /\ a_dtmf = <<>>

Init == ModemInit /\ SendOff /\ CodecOff /\ e_event = NoEvent /\ BgOff /\ PolicyOff

RxNext ==
    \/ RxStart
    \/ \E chunk \in RxChunks, elapsed \in BOOLEAN, sil \in BOOLEAN :
           \/ RxReadEnd(chunk, elapsed, sil)
           \/ RxDleReadEnd(chunk, elapsed, sil)
    \/ \E p \in {"lockR", "lockD"} : RxAcquire(p)
    \/ RxDrainEnd
    \/ RxResultEnd

TxNext ==
    \/ \E low \in BOOLEAN, elapsed \in BOOLEAN :
           \/ TxStart(low, elapsed)
           \/ TxSleepEnd(low, elapsed)
    \/ TxFillAcquire
    \/ \E elapsed \in BOOLEAN : TxFillDrainEnd(elapsed)
    \/ TxEndAcquire
    \/ TxEndDrainEnd
    \/ TxSettleEnd
    \/ TxResultEnd

SdNext ==
    \/ \E fire \in BOOLEAN : SdStart(fire) \/ SdSleepEnd(fire)
    \/ CallbackFinish

PqNext ==
    \/ PqStart
    \/ PqGet
    \/ PqAcquire
    \/ PqDrainEnd
    \/ PqSleepEnd

ElNext ==
    \/ ElStart
    \/ \E ev \in Events : ElReadEnd(ev)
    \/ ElCancelled
    \/ ElCallbackReturn
    \/ ElCallbackRaise
    \/ ElDoneCallbacks

SendStepNext ==
    \/ CallerAcquire
    \/ CallerDrainEnd
    \/ \E r \in GainAnswers : GainEnd(r)
    \/ \E r \in Answers : StartEnd(r) \/ SetModeEnd(r)

ResetStepNext ==
    \/ ResetSent
    \/ \E r \in Answers, m \in Mode : ResetEnd(r, m)

\* the application runs voice sessions and does not use the event loop
SessionCaller ==
    \/ \E op \in StartOps : StartVoice(op)
    \/ SetMode("VOICE")
    \/ StopVoice
    \/ VoiceEnd
    \/ VoiceEndPoll
    \/ \E file \in Files : SendAudioFile(file)
    \/ Resume

Next ==
    \/ RxNext
    \/ TxNext
    \/ SdNext
    \/ PqNext
    \/ SendStepNext
    \/ SessionCaller

Spec == Init /\ [][Next]_vars

\* the application runs the event loop, resets and closes the modem, and
\* records (start_voice_receive) while the loop exists
LoopCaller ==
    \/ StartVoice("start_voice_receive")
    \/ \E m \in Mode : SetMode(m)
    \/ SoftReset
    \/ StopVoice
    \/ StartEventLoop
    \/ StopEventLoop
    \/ Close
    \/ AwaitLoopEnd
    \/ Resume

LoopNext ==
    \/ RxNext
    \/ CallbackFinish
    \/ ElNext
    \/ SendStepNext
    \/ ResetStepNext
    \/ LoopCaller

LoopSpec == Init /\ [][LoopNext]_vars

(***************************************************************************)
(* FairSession: an application that runs one session at a time the way     *)
(* Callblock.block_call does (__init__.py 108-155): it starts a session    *)
(* when none is active, may queue audio and stop it, and waits for its     *)
(* end.  A task that can run is run, every sleep and timed read ends, and  *)
(* the modem answers what is written to it.                                *)
(***************************************************************************)
SessionTasks == Total(rx) + Total(tx) + Total(sd) + Total(pq)

FairCaller ==
    \/ mode # "VOICE" /\ SetMode("VOICE")
    \/ \E op \in StartOps :
           /\ mode = "VOICE" /\ state \notin VoiceStates /\ SessionTasks = 0
           /\ StartVoice(op)
    \/ state \in VoiceStates /\ StopVoice
    \/ state \in VoiceStates /\ SendAudioFile("wav")
    \/ VoiceEnd
    \/ VoiceEndPoll
    \/ Resume

\* this caller sends commands only while no session task is alive, so the
\* write of Modem.write (lines 370-375) finds the lock free and never waits
FairStepNext ==
    \/ CallerDrainEnd
    \/ \E r \in GainAnswers : GainEnd(r)
    \/ \E r \in Answers : StartEnd(r) \/ SetModeEnd(r)

FairNext ==
    \/ RxNext
    \/ TxNext
    \/ SdNext
    \/ PqNext
    \/ FairStepNext
    \/ FairCaller

FairSession ==
    /\ Init
    /\ [][FairNext]_vars
    /\ WF_vars(RxNext)
    /\ WF_vars(TxNext)
    /\ WF_vars(SdNext)
    /\ WF_vars(PqNext)
    /\ WF_vars(FairStepNext)
    /\ WF_vars(VoiceEndPoll)

(***************************************************************************)
(* FairLoop: an application that starts and stops the event loop and sets  *)
(* the mode in between.  The scheduler runs the loop task whenever it can  *)
(* run, the line keeps delivering events, a callback ends, and a coroutine *)
(* awaiting an ended task is woken.                                        *)
(***************************************************************************)
FairLoopCaller ==
    \/ StartEventLoop
    \/ StopEventLoop
    \/ AwaitLoopEnd
    \/ \E m \in Mode : SetMode(m)
    \/ CallerDrainEnd
    \/ \E r \in Answers : SetModeEnd(r)
    \/ Resume

FairLoopNext ==
    \/ ElNext
    \/ FairLoopCaller

FairLoop ==
    /\ Init
    /\ [][FairLoopNext]_vars
    /\ WF_vars(ElNext)
    /\ WF_vars(AwaitLoopEnd)
    /\ WF_vars(CallerDrainEnd)
    /\ WF_vars(\E r \in Answers : SetModeEnd(r))

\* _background_tasks (modem.py 265, 767-781): the tasks created and not done,
\* counted per kind
background_tasks ==
    [k \in Kinds |->
        IF k = "RX" THEN Total(rx)
        ELSE IF k = "TX" THEN Total(tx)
        ELSE IF k = "SD" THEN Total(sd)
        ELSE IF k = "play_queue" THEN Total(pq)
        ELSE IF k = "callback" THEN cb
        ELSE IF el_pc \in ElLive THEN 1 ELSE 0]

TypeOK ==
    /\ state \in State
    /\ mode \in Mode
    /\ stop_event \in StopReasons \cup {"None"}
    /\ write_lock \in {"free", "rx", "tx", "pq", "caller"}
    /\ (write_lock = "free") = (out_data = "none")
    /\ lock_queue \in Seq({"rx", "tx", "pq", "caller"}) /\ Len(lock_queue) = LockWaiters
    /\ k_pc \in {"off", "call_callback", "pick_up", "sleep", "start", "audio", "voice_end",
                "hang_up", "soft_reset", "set_caller_id", "set_mode", "send_vsm",
                "done", "raised"}
    /\ k_voice \in BOOLEAN /\ k_vcid \in {"on", "profile"}
    /\ Len(k_log) <= 1
    /\ waiter \in {"none", "rx", "tx", "el", "caller"}
    /\ \A p \in RxPcs : rx[p] \in 0..MaxTasks
    /\ \A p \in TxPcs : tx[p] \in 0..MaxTasks
    /\ \A p \in SdPcs : sd[p] \in 0..MaxTasks
    /\ \A p \in PqPcs : pq[p] \in 0..MaxTasks
    /\ cb \in 0..MaxCallbacks
    /\ play_queue \in 0..MaxQueue


(***************************************************************************)
(* SendSpec: the command engine, Modem.send (modem.py 386-404) with        *)
(* Modem.read_until_result (350-354) and CommandResponse.from_bytes        *)
(* (205-216), against a modem that echoes and answers the commands of one  *)
(* write in order and may send an unsolicited line at any time.  The unit  *)
(* of the stream is the line: a text, with or without the command line     *)
(* prefix AT in front and the terminator S3 behind.                        *)
(***************************************************************************)
\* the commands send is called with, as start_voice_duplex gives them (604)
\* and with the prefix already there
Commands == {[prefix |-> FALSE, body |-> "+VGR=128", cr |-> FALSE],
             [prefix |-> TRUE, body |-> "+VGT=128", cr |-> FALSE]}
Unsolicited == {"RING", "DIGITAL LINE DETECTED"}
Final == {"OK", "ERROR"}
\* text the modem sends in the response to a command, on a line that ends in
\* the letters of a result code
Texts == {"LOOK"}

\* Modem._commandify (modem.py 377-384)
Commandify(cmd) == [cmd EXCEPT !.prefix = TRUE, !.cr = TRUE]

\* the line of a result code
CodeLine(code) == [prefix |-> FALSE, body |-> code, cr |-> TRUE]

\* bytes.strip() on a line
Strip(line) == [line EXCEPT !.cr = FALSE]

RECURSIVE SeqsUpTo(_, _)
SeqsUpTo(S, n) ==
    IF n = 0 THEN {<<>>}
    ELSE LET shorter == SeqsUpTo(S, n - 1)
         IN shorter \cup {Append(q, x) : q \in shorter, x \in S}

\* line 352: the data holds the value of some ResultCode, unsolicited ones
\* too, followed by the trailer; the test is one of substrings, so the end of
\* a line of text counts as well
HasResult(data) ==
    \E i \in 1..Len(data) : \E code \in ResultCode \cup Texts : data[i] = CodeLine(code)

\* line 394: cmd in data
Echoed(data, cmd) == \E i \in 1..Len(data) : data[i] = cmd

\* line 398: data.partition(cmd), the echo and what follows it
FromEcho(data, cmd) ==
    LET i == CHOOSE k \in 1..Len(data) : data[k] = cmd /\ \A j \in 1..(k - 1) : data[j] # cmd
    IN SubSeq(data, i, Len(data))

\* CommandResponse.from_bytes: the first line is the command, the last one
\* the result code
FromBytes(lines) == [cmd |-> Strip(lines[1]), result_code |-> Strip(lines[Len(lines)]).body]

\* line 403
Collect(responses, res) == Append(responses, res)

\* line 404
SendResult(responses) ==
    IF Len(responses) > 1 THEN [list |-> TRUE, items |-> responses]
    ELSE [list |-> FALSE, items |-> <<responses[1]>>]

sendOthers == <<modemVars, ioVars, taskVars, elVars, callerVars, codecVars, bgVars, policyVars, e_event>>

SendInit ==
    /\ ModemInit
    /\ callbacks = "Modem"
    /\ s_pc = "called"
    /\ s_cmds \in SeqsUpTo(Commands, MaxCommands) \ {<<>>}
    /\ s_idx = 0
    /\ s_writes = 0
    /\ s_data = <<>>
    /\ s_responses = <<>>
    /\ s_ret = <<>>
    /\ s_stream = <<>>
    /\ m_pos = 0
    /\ m_issued = <<>>
    /\ m_unsol = 0
    /\ CodecOff
    /\ e_event = NoEvent /\ BgOff /\ PolicyOff

\* lines 387-392: the commands go out joined, in one write
SendWrite ==
    /\ s_pc = "called"
    /\ s_cmds' = [i \in 1..Len(s_cmds) |-> Commandify(s_cmds[i])]
    /\ s_writes' = s_writes + 1
    /\ s_idx' = 1
    /\ s_pc' = "read"
    /\ UNCHANGED <<s_data, s_responses, s_ret, s_stream, m_pos, m_issued, m_unsol>>
    /\ UNCHANGED sendOthers

\* lines 393-403 on one more line of the stream
SendRead ==
    /\ s_pc = "read"
    /\ s_stream # <<>>
    /\ s_stream' = Tail(s_stream)
    /\ LET data == Append(s_data, Head(s_stream))
           cmd == s_cmds[s_idx]
       IN IF ~HasResult(data)
          THEN s_data' = data /\ UNCHANGED <<s_idx, s_pc, s_responses, s_ret>>
          ELSE /\ s_data' = <<>>
               /\ IF ~Echoed(data, cmd)
                  THEN \* lines 394-397: logged as unsolicited, read on
                       UNCHANGED <<s_idx, s_pc, s_responses, s_ret>>
                  ELSE IF FromBytes(FromEcho(data, cmd)).result_code \notin ResultCode
                  THEN \* line 208: ResultCode(...) raises ValueError, which
                       \* nothing in from_bytes or send catches
                       /\ s_pc' = "raised"
                       /\ UNCHANGED <<s_idx, s_responses, s_ret>>
                  ELSE /\ s_responses' = Collect(s_responses, FromBytes(FromEcho(data, cmd)))
                       /\ IF s_idx < Len(s_cmds)
                          THEN s_idx' = s_idx + 1 /\ UNCHANGED <<s_pc, s_ret>>
                          ELSE /\ s_pc' = "returned"
                               /\ s_ret' = SendResult(s_responses')
                               /\ UNCHANGED s_idx
    /\ UNCHANGED <<s_cmds, s_writes, m_pos, m_issued, m_unsol>>
    /\ UNCHANGED sendOthers

\* the modem echoes the next command of the line it was written
ModemEcho ==
    /\ s_writes > 0
    /\ m_pos < 2 * Len(s_cmds)
    /\ m_pos % 2 = 0
    /\ s_stream' = Append(s_stream, s_cmds[(m_pos \div 2) + 1])
    /\ m_pos' = m_pos + 1
    /\ UNCHANGED <<s_pc, s_cmds, s_idx, s_writes, s_data, s_responses, s_ret, m_issued, m_unsol>>
    /\ UNCHANGED sendOthers

\* the modem issues the result code of the command it echoed
ModemAnswer(code) ==
    /\ code \in Final
    /\ m_pos % 2 = 1
    /\ s_stream' = Append(s_stream, CodeLine(code))
    /\ m_issued' = Append(m_issued, code)
    /\ m_pos' = m_pos + 1
    /\ UNCHANGED <<s_pc, s_cmds, s_idx, s_writes, s_data, s_responses, s_ret, m_unsol>>
    /\ UNCHANGED sendOthers

\* the line rings, or the modem detects a digital line
ModemUnsolicited(code) ==
    /\ code \in Unsolicited
    /\ s_pc # "returned"
    /\ m_unsol < MaxUnsolicited
    /\ m_unsol' = m_unsol + 1
    /\ s_stream' = Append(s_stream, CodeLine(code))
    /\ UNCHANGED <<s_pc, s_cmds, s_idx, s_writes, s_data, s_responses, s_ret, m_pos, m_issued>>
    /\ UNCHANGED sendOthers

SendNext ==
    \/ SendWrite
    \/ SendRead
    \/ ModemEcho
    \/ \E code \in Final : ModemAnswer(code)
    \/ \E code \in Unsolicited : ModemUnsolicited(code)

SendSpec == SendInit /\ [][SendNext]_vars

(***************************************************************************)
(* ParseSpec: the command engine over responses that carry a line of text  *)
(* between the echo of the command and its result code.                    *)
(***************************************************************************)
ModemText(text) ==
    /\ text \in Texts
    /\ s_pc \notin {"returned", "raised"}
    /\ m_pos % 2 = 1
    /\ m_unsol < MaxUnsolicited
    /\ m_unsol' = m_unsol + 1
    /\ s_stream' = Append(s_stream, CodeLine(text))
    /\ UNCHANGED <<s_pc, s_cmds, s_idx, s_writes, s_data, s_responses, s_ret, m_pos, m_issued>>
    /\ UNCHANGED sendOthers

ParseNext ==
    \/ SendNext
    \/ \E text \in Texts : ModemText(text)

ParseSpec == SendInit /\ [][ParseNext]_vars

(***************************************************************************)
(* ModeSpec: Modem.set_mode (modem.py 449-466) over the command engine.    *)
(* c_pc is "send" while set_mode awaits Modem.send.                        *)
(***************************************************************************)
\* line 460: the command of set_mode, Mode.DATA being '0' and Mode.VOICE '8'
ModeCommand(m) ==
    [prefix |-> FALSE, body |-> IF m = "VOICE" THEN "+FCLASS=8" ELSE "+FCLASS=0",
     cr |-> FALSE]

\* CommandResponse.is_ok (modem.py 200-202)
IsOk(res) == res.result_code = "OK"

ModeInit ==
    /\ ModemFields /\ NoSession
    /\ callbacks = "Modem"
    /\ c_op = "set_mode" /\ c_pc = "send" /\ c_step = 1 /\ c_arg \in Mode /\ c_codes = <<>>
    /\ c_ret = "none" /\ c_wake = "none"
    /\ s_pc = "called"
    /\ s_cmds = <<ModeCommand(c_arg)>>
    /\ s_idx = 0
    /\ s_writes = 0
    /\ s_data = <<>>
    /\ s_responses = <<>>
    /\ s_ret = <<>>
    /\ s_stream = <<>>
    /\ m_pos = 0
    /\ m_issued = <<>>
    /\ m_unsol = 0
    /\ CodecOff
    /\ e_event = NoEvent /\ BgOff /\ PolicyOff

\* lines 460-466 on the response send has returned
SetModeReturn ==
    /\ c_op = "set_mode" /\ c_pc = "send"
    /\ s_pc = "returned"
    /\ IF IsOk(s_ret.items[1])
       THEN mode' = c_arg /\ Return("True")
       ELSE Return("False") /\ UNCHANGED mode
    /\ UNCHANGED <<state, stop_event, running, event_loop, write_lock, play_queue,
                   silence, silence_seconds, callbacks, ioVars, taskVars, elVars,
                   c_op, c_step, c_arg, c_codes, c_wake, sendVars, codecVars, bgVars, policyVars, e_event>>

ModeNext ==
    \/ SendNext
    \/ SetModeReturn

ModeSpec == ModeInit /\ [][ModeNext]_vars

(***************************************************************************)
(* CodecSpec: the audio of one receive session, Modem._receive (modem.py   *)
(* 520-554) with Modem._catch_dsc (505-518), at the level of bytes.  The   *)
(* modem sends voice data in which every <DLE> is shielded: it is followed *)
(* by the code of the pair.  "a" is a sample, "nl" the sample 0x0A, "b"    *)
(* the code of BUSY after a <DLE> and a sample otherwise.                  *)
(***************************************************************************)
Bytes == {"DLE", "a", "b", "nl", "ETX"}
\* the codes that follow a <DLE> in the data of this modem; ETX stands for
\* the codes by which the modem ends the stream, <DLE><ETX>, <DLE>! and <DLE>^
ShieldedCodes == {"DLE", "b", "ETX"}

\* a stream as the modem sends it: every <DLE> starts a pair
RECURSIVE WellShielded(_)
WellShielded(data) ==
    IF data = <<>> THEN TRUE
    ELSE IF Head(data) = "DLE"
         THEN /\ Len(data) >= 2
              /\ data[2] \in ShieldedCodes
              /\ WellShielded(SubSeq(data, 3, Len(data)))
         ELSE WellShielded(Tail(data))

\* line 528, re.sub(DLE + b"(.)", self._catch_dsc, data): from left to right,
\* a <DLE> and the byte after it, unless that byte is a newline, are replaced
\* by what _catch_dsc returns: <DLE> for <DLE><DLE>, nothing otherwise
RECURSIVE Sub(_)
Sub(data) ==
    IF data = <<>> THEN <<>>
    ELSE IF Head(data) = "DLE" /\ Len(data) >= 2 /\ data[2] # "nl"
         THEN (IF data[2] = "DLE" THEN <<"DLE">> ELSE <<>>)
                  \o Sub(SubSeq(data, 3, Len(data)))
         ELSE <<Head(data)>> \o Sub(Tail(data))

\* the codes _catch_dsc is called with on data
RECURSIVE Codes(_)
Codes(data) ==
    IF data = <<>> THEN <<>>
    ELSE IF Head(data) = "DLE" /\ Len(data) >= 2 /\ data[2] # "nl"
         THEN <<data[2]>> \o Codes(SubSeq(data, 3, Len(data)))
         ELSE Codes(Tail(data))

\* line 526: data.endswith(DLE)
EndsWithDle(data) == data # <<>> /\ data[Len(data)] = "DLE"

\* lines 540-545 on end, the bytes read by read_until_result up to the OK
\* line: what precedes the last <DLE><ETX>, or all of end when there is none
ToWrite(end) ==
    LET at == {k \in 1..(Len(end) - 1) : end[k] = "DLE" /\ end[k + 1] = "ETX"}
    IN IF at = {} THEN end
       ELSE LET k == CHOOSE x \in at : \A y \in at : y <= x
            IN SubSeq(end, 1, k - 1)

\* the values of the enumeration DTMF (lines 53-69) the model draws from
Digits == {"1", "2"}

\* Modem._catch_dtmf (lines 494-503): the new _last_dtmf
CatchDtmf(last, code) ==
    IF code = "/" THEN "/"
    ELSE IF code = "~" /\ last \in Digits THEN "None"
    ELSE IF code \in Digits /\ last = "/" THEN code
    ELSE "None"

\* line 497: the branch that calls the hook
Dispatches(last, code) == code = "~" /\ last \in Digits

\* re.sub calling _catch_dsc (lines 505-518) on the codes of data in turn,
\* from the record r of _last_dtmf, the stop reason, the codes seen, the
\* digits dispatched and whether the hook has raised: b sets the stop reason,
\* <DLE> is returned as it is, every other code goes to _catch_dtmf; a hook
\* that raises ends the substitution
RECURSIVE DscRun(_, _)
DscRun(r, codes) ==
    IF codes = <<>> \/ r.raised THEN r
    ELSE LET code == Head(codes)
             seen == Append(r.seen, code)
         IN DscRun(
              IF code = "b" THEN [r EXCEPT !.stop = "busy", !.seen = seen]
              ELSE IF code = "DLE" THEN [r EXCEPT !.seen = seen]
              ELSE IF Dispatches(r.last, code) /\ HookRaises
                   THEN [r EXCEPT !.seen = seen, !.raised = TRUE]
              ELSE IF Dispatches(r.last, code)
                   THEN [r EXCEPT !.seen = seen, !.sent = Append(r.sent, r.last),
                                  !.last = "None"]
              ELSE [r EXCEPT !.seen = seen, !.last = CatchDtmf(r.last, code)],
              Tail(codes))

codecOthers == <<mode, running, event_loop, write_lock, play_queue, silence,
                 silence_seconds, callbacks, out_data, lock_queue, tx, sd, pq,
                 elVars, callerVars, sendVars, a_in, e_event, bgVars, policyVars>>

\* a receive session has been started and its RX task is in its first read;
\* inputs: the streams the modem may send, hooks: the classes of the object
CodecSession(inputs, hooks) ==
    /\ state = "VOICE_RECEIVE"
    /\ mode = "VOICE"
    /\ stop_event = "None"
    /\ running = TRUE
    /\ event_loop = "None"
    /\ write_lock = "free" /\ lock_queue = <<>>
    /\ play_queue = 0
    /\ silence = FALSE
    /\ silence_seconds = "pos"
    /\ callbacks \in hooks
    /\ waiter = "rx"
    /\ out_data = "none"
    /\ rx = [NoTasks(RxPcs) EXCEPT !["read"] = 1] /\ tx = NoTasks(TxPcs)
    /\ sd = NoTasks(SdPcs) /\ pq = NoTasks(PqPcs)
    /\ cb = 0
    /\ el_pc = "none" /\ el_cancel = FALSE /\ el_cb = "none" /\ el_origin = "none"
    /\ c_op = "none" /\ c_pc = "idle" /\ c_step = 0 /\ c_arg = "none" /\ c_codes = <<>>
    /\ c_ret = "none" /\ c_wake = "none"
    /\ SendOff
    /\ a_in \in inputs
    /\ a_rest = a_in
    /\ a_audio = <<>>
    /\ a_data = <<>>
    /\ a_codes = <<>>
    /\ a_last = "None"
    /\ a_dtmf = <<>>
    /\ e_event = NoEvent /\ BgOff /\ PolicyOff

CodecInit == CodecSession({d \in SeqsUpTo(Bytes, MaxBytes) : WellShielded(d)}, {"Modem"})

\* lines 526-535 on data, the bytes read in this iteration, the RX task
\* being at from: while data ends with <DLE> the task reads again (line 527);
\* otherwise the pairs are substituted, the audio is kept and the stop
\* reason is set; when it is set the terminator is written (line 538) and the
\* task reads the result (line 539)
CodecProcess(from, data, elapsed) ==
    IF EndsWithDle(data)
    THEN /\ a_data' = data
         /\ rx' = Mv(rx, from, "read_dle")
         /\ UNCHANGED <<stop_event, waiter, cb, a_audio, a_codes, a_last, a_dtmf>>
    ELSE LET r == DscRun([last |-> a_last, stop |-> stop_event, seen |-> <<>>,
                          sent |-> <<>>, raised |-> FALSE], Codes(data))
         IN /\ cb + Len(r.sent) <= MaxCallbacks
            /\ cb' = cb + Len(r.sent)
            /\ a_data' = <<>>
            /\ a_codes' = a_codes \o r.seen
            /\ a_last' = r.last
            /\ a_dtmf' = a_dtmf \o r.sent
            /\ IF r.raised
               THEN /\ stop_event' = r.stop
                    /\ a_audio' = a_audio
                    /\ rx' = Fail(rx, from)
                    /\ waiter' = "none"
               ELSE /\ stop_event' = TimeCheck(r.stop, elapsed)
                    /\ a_audio' = a_audio \o Sub(data)
                    /\ rx' = Mv(rx, from, IF stop_event' = "None" THEN "read" ELSE "result")
                    /\ waiter' = waiter

\* line 525: the timed read returns the next n bytes, none on its timeout
CodecRead(n, elapsed) ==
    /\ rx["read"] > 0
    /\ n \in 0..Len(a_rest)
    /\ a_rest' = SubSeq(a_rest, n + 1, Len(a_rest))
    /\ CodecProcess("read", SubSeq(a_rest, 1, n), elapsed)
    /\ UNCHANGED <<state, codecOthers>>

\* line 527: the read without timeout returns the next n bytes, one at least
CodecReadDle(n, elapsed) ==
    /\ rx["read_dle"] > 0
    /\ n \in 1..Len(a_rest)
    /\ a_rest' = SubSeq(a_rest, n + 1, Len(a_rest))
    /\ CodecProcess("read_dle", a_data \o SubSeq(a_rest, 1, n), elapsed)
    /\ UNCHANGED <<state, codecOthers>>

\* stop_voice (lines 681-682), called while the RX task is in a read
CodecStop ==
    /\ rx["read"] + rx["read_dle"] > 0
    /\ stop_event' = "stop"
    /\ UNCHANGED <<state, waiter, rx, cb, a_rest, a_audio, a_data, a_codes, a_last,
                   a_dtmf, codecOthers>>

\* lines 539-547: the modem has sent the rest of its data and ended the
\* stream, with <DLE><ETX> (etx) or without, and OK
CodecTail(etx) ==
    /\ rx["result"] > 0
    /\ LET end == a_rest \o (IF etx THEN <<"DLE", "ETX">> ELSE <<>>)
       IN a_audio' = a_audio \o ToWrite(end)
    /\ a_rest' = <<>>
    /\ state' = "VOICE_COMMAND"
    /\ waiter' = "none"
    /\ rx' = End(rx, "result")
    /\ UNCHANGED <<stop_event, cb, a_data, a_codes, a_last, a_dtmf, codecOthers>>

CodecNext ==
    \/ \E n \in 0..MaxBytes, elapsed \in BOOLEAN : CodecRead(n, elapsed)
    \/ \E n \in 1..MaxBytes, elapsed \in BOOLEAN : CodecReadDle(n, elapsed)
    \/ CodecStop
    \/ \E etx \in BOOLEAN : CodecTail(etx)

CodecSpec == CodecInit /\ [][CodecNext]_vars

(***************************************************************************)
(* DtmfSpec: the RX task over streams of shielded codes, for the DTMF      *)
(* shielding <DLE>/ <DLE>digit <DLE>~ and the call of dtmf_callback, with  *)
(* the hooks of Modem and those Callblock installs.                        *)
(***************************************************************************)
DtmfCodes == {"/", "~", "b", "DLE"} \cup Digits

\* the bytes of a sequence of shielded codes
RECURSIVE Shield(_)
Shield(codes) ==
    IF codes = <<>> THEN <<>> ELSE <<"DLE", Head(codes)>> \o Shield(Tail(codes))

DtmfInit ==
    CodecSession({Shield(cs) : cs \in SeqsUpTo(DtmfCodes, MaxCodes)}, {"Modem", "Callblock"})

DtmfNext ==
    \/ \E n \in 0..(2 * MaxCodes), elapsed \in BOOLEAN : CodecRead(n, elapsed)
    \/ \E n \in 1..(2 * MaxCodes), elapsed \in BOOLEAN : CodecReadDle(n, elapsed)
    \/ CodecStop
    \/ \E etx \in BOOLEAN : CodecTail(etx)
    \/ CallbackFinish

DtmfSpec == DtmfInit /\ [][DtmfNext]_vars

(***************************************************************************)
(* EventSpec: the dispatch of events by Modem.event_loop (modem.py         *)
(* 740-765) with the classification of Event (140-170).  The loop is       *)
(* running; e_event keeps the event it has read last.                      *)
(***************************************************************************)
EventInit ==
    /\ ModemFields
    /\ callbacks = "Modem"
    /\ rx = NoTasks(RxPcs) /\ tx = NoTasks(TxPcs)
    /\ sd = NoTasks(SdPcs) /\ pq = NoTasks(PqPcs)
    /\ cb = 0
    /\ el_pc = "none" /\ el_cancel = FALSE /\ el_cb = "none" /\ el_origin = "none"
    /\ CallerIdle
    /\ SendOff /\ CodecOff
    /\ e_event = NoEvent /\ BgOff /\ PolicyOff

EventRead(ev) == ElRead(ev) /\ e_event' = ev

EventNext ==
    \/ StartEventLoop
    \/ Resume
    \/ ElStart
    \/ \E ev \in Events : EventRead(ev)
    \/ ElCallbackReturn
    \/ ElCallbackRaise
    \/ ElDoneCallbacks

EventSpec == EventInit /\ [][EventNext]_vars

(***************************************************************************)
(* TermSpec: one voice session started while the event loop is inside a    *)
(* callback, as by a ring or call callback that starts the session and     *)
(* returns without waiting for its end.  The modem is in voice mode; the   *)
(* session ends on its maximal duration or on BUSY.  The play queue may    *)
(* hold an item that an earlier session left unplayed: one that was queued *)
(* after the consumer of that session had ended.                           *)
(***************************************************************************)
Terminators == {"END_RECORD", "END_DUPLEX", "END_STREAM"}

TermInit ==
    /\ state = "WAITING_EVENT"
    /\ mode = "VOICE"
    /\ stop_event = "None"
    /\ running = TRUE
    /\ event_loop = "task"
    /\ write_lock = "free" /\ lock_queue = <<>>
    /\ play_queue \in 0..MaxQueue
    /\ silence = FALSE
    /\ silence_seconds = "pos"
    /\ callbacks = "Modem"
    /\ waiter = "none"
    /\ out_data = "none"
    /\ rx = NoTasks(RxPcs) /\ tx = NoTasks(TxPcs)
    /\ sd = NoTasks(SdPcs) /\ pq = NoTasks(PqPcs)
    /\ cb = 0
    /\ el_pc = "callback" /\ el_cancel = FALSE /\ el_cb \in {"ring", "call"}
    /\ el_origin = "start"
    /\ CallerIdle
    /\ SendOff /\ CodecOff
    /\ e_event = NoEvent /\ BgOff /\ PolicyOff

TermNext ==
    \/ \E op \in StartOps : StartVoice(op)
    \/ CallerDrainEnd
    \/ \E r \in GainAnswers : GainEnd(r)
    \/ \E r \in Answers : StartEnd(r)
    \/ RxNext
    \/ TxNext
    \/ SdNext
    \/ PqNext
    \/ ElStart
    \/ \E ev \in Events : ElReadEnd(ev)
    \/ ElCallbackReturn
    \/ ElCallbackRaise
    \/ ElDoneCallbacks

TermSpec == TermInit /\ [][TermNext]_vars

(***************************************************************************)
(* PlaySpec: a duplex or transmit session that was started within a second *)
(* of the end of the session before it.  The playback consumer of that     *)
(* session was still waiting on the queue (line 634) when the stop reason  *)
(* was reset (lines 609, 625), so it goes on next to the new one.  The     *)
(* caller queues audio files and stops the session.                        *)
(***************************************************************************)
PlayInit ==
    /\ c_op \in {"start_voice_duplex", "start_voice_transmit"}
    /\ state = NewState(c_op)
    /\ mode = "VOICE"
    /\ stop_event = "None"
    /\ running = TRUE
    /\ event_loop = "None"
    /\ write_lock = "free" /\ lock_queue = <<>>
    /\ play_queue = 0
    /\ silence = FALSE
    /\ silence_seconds = "pos"
    /\ callbacks = "Modem"
    /\ waiter = "none"
    /\ out_data = "none"
    /\ rx = Spawn(NoTasks(RxPcs))
    /\ tx = Spawn(NoTasks(TxPcs))
    /\ sd = IF Creates(c_op, "SD") THEN Spawn(NoTasks(SdPcs)) ELSE NoTasks(SdPcs)
    /\ pq = [Spawn(NoTasks(PqPcs)) EXCEPT !["get"] = 1]
    /\ cb = 0
    /\ el_pc = "none" /\ el_cancel = FALSE /\ el_cb = "none" /\ el_origin = "none"
    /\ c_pc = "returned" /\ c_step = 2 /\ c_arg = "none" /\ c_codes = <<"OK", "CONNECT">>
    /\ c_ret = "True" /\ c_wake = "none"
    /\ SendOff /\ CodecOff
    /\ e_event = NoEvent /\ BgOff /\ PolicyOff

PlayNext ==
    \/ RxNext
    \/ TxNext
    \/ SdNext
    \/ PqNext
    \/ \E file \in Files : SendAudioFile(file)
    \/ StopVoice
    \/ Resume

PlaySpec == PlayInit /\ [][PlayNext]_vars

(***************************************************************************)
(* TaskSpec: Modem.create_background_task (modem.py 767-781) and the done  *)
(* callback it adds, over tasks that end normally, by an exception or by   *)
(* their cancellation.  A task is "running" from its creation, "done" once *)
(* it has ended, and "finished" once its done callback has run: asyncio    *)
(* schedules the callback when the task ends and runs it at the next turn  *)
(* of its loop.                                                            *)
(***************************************************************************)
Outcomes == {"ok", "exc", "cancelled"}

\* lines 769-777: whether the done callback reaches the discard of line 777;
\* task.result() raises for a cancelled task and for one that raised, both
\* except clauses only log
Discards(outcome) == outcome \in {"ok", "exc", "cancelled"}

TaskInit ==
    /\ ModemInit
    /\ callbacks = "Modem"
    /\ SendOff /\ CodecOff
    /\ e_event = NoEvent /\ PolicyOff
    /\ b_tasks = <<>>
    /\ b_set = {}

taskOthers == <<modemVars, ioVars, taskVars, elVars, callerVars, sendVars, codecVars,
                policyVars, e_event>>

\* lines 778-781
CreateBackgroundTask ==
    /\ Len(b_tasks) < MaxSpawns
    /\ b_tasks' = Append(b_tasks, [pc |-> "running", outcome |-> "none"])
    /\ b_set' = b_set \cup {Len(b_tasks) + 1}
    /\ UNCHANGED taskOthers

\* the coroutine of task i returns, raises, or is cancelled
TaskEnds(i, outcome) ==
    /\ i \in 1..Len(b_tasks)
    /\ b_tasks[i].pc = "running"
    /\ b_tasks' = [b_tasks EXCEPT ![i] = [pc |-> "done", outcome |-> outcome]]
    /\ UNCHANGED <<b_set, taskOthers>>

\* lines 768-777 for task i
DoneCallback(i) ==
    /\ i \in 1..Len(b_tasks)
    /\ b_tasks[i].pc = "done"
    /\ b_tasks' = [b_tasks EXCEPT ![i].pc = "finished"]
    /\ b_set' = IF Discards(b_tasks[i].outcome) THEN b_set \ {i} ELSE b_set
    /\ UNCHANGED taskOthers

TaskNext ==
    \/ CreateBackgroundTask
    \/ \E i \in 1..MaxSpawns, outcome \in Outcomes : TaskEnds(i, outcome)
    \/ \E i \in 1..MaxSpawns : DoneCallback(i)

TaskSpec == TaskInit /\ [][TaskNext]_vars

(***************************************************************************)
(* BlockSpec: Callblock.call_callback (__init__.py 160-169) for one call   *)
(* that the event loop has delivered, with block_reason (98-106),          *)
(* block_call (108-155) and set_up_modem (61-72) over the Modem, its       *)
(* session tasks and the modem's answers.  The block action is a voice     *)
(* action or none; PLAY_MESSAGE is configured with an audio file.  k_pc is *)
(* the statement reached: the Modem method of that name is called when the *)
(* caller is idle and has returned when the caller has.                    *)
(***************************************************************************)
BlockAction == {"PLAY_MESSAGE", "RECORD", "TRANSMIT", "DUPLEX"}
FilterType == {"BLACKLIST", "WHITELIST"}
PlainOps == {"pick_up", "hang_up", "set_caller_id", "send_vsm"}

\* The call of a call event, Call.from_event (modem.py 110-112): an event
\* is a call when it has DATE and TIME (modem.py 151-153), so its NMBR may
\* be missing and the number None, which is neither private ('P', 'O',
\* modem.py 106-108) nor a key of the filter list.
Calls == {c \in [number : BOOLEAN, private : BOOLEAN, in_list : BOOLEAN] :
              ~c.number => ~c.private /\ ~c.in_list}

\* str(call) (Call.__str__, modem.py 80-85): without a number __str__
\* returns None or adds None to a string, and TypeError is raised
CallStr(call) == IF call.number THEN "str" ELSE "TypeError"

\* block_reason (lines 98-106)
BlockReason(call) ==
    IF call.private /\ k_private THEN "Number is private"
    ELSE IF k_filter = "BLACKLIST" /\ call.in_list THEN "Contact is on blacklist"
    ELSE IF k_filter = "WHITELIST" /\ ~call.in_list THEN "Contact is not on whitelist"
    ELSE "None"

\* the start_voice_* of a block action (lines 121, 127, 131, 136)
StartOf(action) ==
    IF action = "RECORD" THEN "start_voice_receive"
    ELSE IF action = "DUPLEX" THEN "start_voice_duplex"
    ELSE "start_voice_transmit"

\* is send_audio_file called once the session is started (lines 122-123,
\* 132-133, 137-138)
SendsFile(action, file) ==
    \/ action = "PLAY_MESSAGE"
    \/ action \in {"DUPLEX", "TRANSMIT"} /\ file # "none"

\* the mode set_up_modem asks for (lines 63-71)
ModeOf(action) == IF action = "None" THEN "DATA" ELSE "VOICE"

\* the statement that follows the one at pc, which has returned ret; an
\* exception of the Modem method leaves block_call and call_callback
NextStatement(pc, ret) ==
    IF ret = "raise" THEN "raised"
    ELSE IF pc = "pick_up" THEN (IF k_action = "None" THEN "sleep" ELSE "start")
    ELSE IF pc = "start"
         THEN IF ret # "True" THEN "hang_up"
              ELSE IF SendsFile(k_action, k_file) THEN "audio" ELSE "voice_end"
    ELSE IF pc = "audio" THEN "voice_end"
    ELSE IF pc = "voice_end" THEN "hang_up"
    ELSE IF pc = "hang_up" THEN "soft_reset"
    ELSE IF pc = "soft_reset" THEN "set_caller_id"
    ELSE IF pc = "set_caller_id" THEN "set_mode"
    ELSE IF pc = "set_mode" THEN (IF k_action = "None" THEN "done" ELSE "send_vsm")
    ELSE "done"

\* _log_call (lines 92-96)
LogCall(call, blocked) == Append(k_log, [call |-> call, blocked |-> blocked])

BlockInit ==
    /\ state = "WAITING_EVENT"
    /\ stop_event = "None"
    /\ running = TRUE
    /\ event_loop = "task"
    /\ write_lock = "free" /\ lock_queue = <<>>
    /\ play_queue = 0
    /\ silence = FALSE
    /\ silence_seconds = "pos"
    /\ callbacks = "Callblock"
    /\ waiter = "none"
    /\ out_data = "none"
    /\ rx = NoTasks(RxPcs) /\ tx = NoTasks(TxPcs)
    /\ sd = NoTasks(SdPcs) /\ pq = NoTasks(PqPcs)
    /\ cb = 0
    /\ el_pc = "callback" /\ el_cancel = FALSE /\ el_cb = "call"
    /\ el_origin = "start"
    /\ CallerIdle
    /\ SendOff /\ CodecOff
    /\ e_event = NoEvent /\ BgOff
    /\ k_pc = "call_callback"
    /\ k_call \in Calls
    /\ k_action \in BlockAction \cup {"None"}
    /\ k_file \in {"none", "wav"}
    /\ k_action = "PLAY_MESSAGE" => k_file = "wav"
    /\ k_private \in BOOLEAN
    /\ k_filter \in FilterType
    /\ k_voice = FALSE
    /\ k_vcid = "on"
    /\ k_log = <<>>
    /\ mode = ModeOf(k_action)

blockOthers == <<modemVars, ioVars, taskVars, elVars, callerVars, sendVars, codecVars,
                 bgVars, e_event, k_call, k_action, k_file, k_private, k_filter>>

\* call_callback up to its first await (lines 161-164), or to its end when
\* the call is not blocked (lines 166-169)
CallCallback ==
    /\ k_pc = "call_callback"
    /\ IF CallStr(k_call) = "TypeError"
       THEN k_pc' = "raised" /\ UNCHANGED k_log
       ELSE IF BlockReason(k_call) = "None"
       THEN k_pc' = "done" /\ k_log' = LogCall(k_call, FALSE)
       ELSE k_pc' = "pick_up" /\ UNCHANGED k_log
    /\ UNCHANGED <<k_voice, k_vcid, blockOthers>>

\* pick_up (480-486), hang_up (488-492), set_caller_id (477-478) and
\* send("AT+VSM=1") (__init__.py 72): one command, up to its write
PlainSend(op) ==
    /\ op \in PlainOps
    /\ Call(op, "none")
    /\ BeginSend
    /\ UNCHANGED <<c_ret, mode, callOthers>>

\* the command is answered with r
PlainSendEnd(r) ==
    /\ c_pc = "r_wait" /\ c_op \in PlainOps
    /\ waiter' = "none"
    /\ Return(r)
    /\ UNCHANGED <<c_op, c_arg, c_codes, c_step, state, mode, stop_event, write_lock,
                   out_data, lock_queue, rx, tx, sd, pq, readOthers>>

\* the Modem method of the statement reached is called
BlockCalls ==
    \/ k_pc \in PlainOps /\ PlainSend(k_pc)
    \/ k_pc = "start" /\ StartVoice(StartOf(k_action))
    \/ k_pc = "audio" /\ SendAudioFile(k_file)
    \/ k_pc = "voice_end" /\ VoiceEnd
    \/ k_pc = "soft_reset" /\ SoftReset
    \/ k_pc = "set_mode" /\ SetMode(ModeOf(k_action))

\* asyncio.sleep(1) of line 146
BlockSleep ==
    /\ k_pc = "sleep"
    /\ k_pc' = "hang_up"
    /\ UNCHANGED <<k_voice, k_vcid, k_log, blockOthers>>

\* the method has returned (or raised) and block_call goes on to its next
\* statement; ATZ puts the modem's settings back to its profile and an
\* accepted AT+VCID=1 turns the caller ID reporting on; after the last
\* statement block_call returns and call_callback logs the call (165-168)
BlockResume ==
    /\ k_pc \notin {"off", "call_callback", "sleep", "done", "raised"}
    /\ c_pc = "returned"
    /\ k_pc' = NextStatement(k_pc, c_ret)
    /\ k_voice' = IF k_pc = "start" THEN c_ret = "True" ELSE k_voice
    /\ k_vcid' = IF k_pc = "soft_reset" THEN "profile"
                 ELSE IF k_pc = "set_caller_id" /\ c_ret = "OK" THEN "on"
                 ELSE k_vcid
    /\ k_log' = IF NextStatement(k_pc, c_ret) = "done" THEN LogCall(k_call, TRUE)
                ELSE k_log
    /\ c_pc' = "idle"
    /\ c_op' = "none"
    /\ c_arg' = "none"
    /\ c_codes' = <<>>
    /\ c_ret' = "none"
    /\ c_step' = 0
    /\ UNCHANGED <<modemVars, ioVars, taskVars, elVars, c_wake, sendVars, codecVars,
                   bgVars, e_event, k_call, k_action, k_file, k_private, k_filter>>

BlockStepNext ==
    \/ CallerAcquire
    \/ CallerDrainEnd
    \/ \E r \in GainAnswers : GainEnd(r) \/ PlainSendEnd(r)
    \/ \E r \in Answers : StartEnd(r) \/ SetModeEnd(r)
    \/ ResetStepNext
    \/ VoiceEndPoll

BlockNext ==
    \/ CallCallback
    \/ BlockCalls
    \/ BlockSleep
    \/ BlockResume
    \/ BlockStepNext
    \/ RxNext
    \/ TxNext
    \/ \E fire \in BOOLEAN : SdStart(fire) \/ SdSleepEnd(fire)
    \/ PqNext

BlockSpec == BlockInit /\ [][BlockNext]_vars

(***************************************************************************)
(* The stop reason.                                                        *)
(***************************************************************************)
\* the caller's step that ends a start_voice_* with success
SessionStarts == c_pc = "r_wait" /\ c_op \in StartOps /\ c_ret' = "True"

\* C1 as stated: within a session the stop reason is a first-writer-wins
\* latch: once it is set, no later write changes its value.
C1_FirstWriterWins ==
    [][(stop_event # "None" /\ stop_event' # "None") => stop_event' = stop_event]_vars

\* C1, amended: once set, the stop reason stays set until a successful
\* start_voice_* clears it; every writer assigns unconditionally, so a later
\* write replaces the value (the last writer wins).
C1_StaysSetUntilStart ==
    [][stop_event # "None" => (stop_event' # "None" \/ SessionStarts)]_vars

\* C1: stop_voice has returned, having written "stop", and the RX or TX task
\* has replaced the reason since
C1_Overwritten ==
    /\ c_op = "stop_voice" /\ c_pc = "returned"
    /\ stop_event \in {"busy", "timeout"}
    /\ state \in VoiceStates

(***************************************************************************)
(* The preconditions of start_voice_*.                                     *)
(***************************************************************************)
\* C2 as stated: a start_voice_* that ends while a session is active (the
\* state is a voice sub-state) returns failure and leaves the state, the stop
\* reason and the session tasks as they were.  (Stated for Modem's own hooks,
\* under which no session task raises.)
C2_FailsInSession ==
    [][(/\ c_op \in StartOps /\ c_pc = "r_wait" /\ c_pc' = "returned"
        /\ state \in VoiceStates /\ callbacks = "Modem")
         => (c_ret' = "False" /\ UNCHANGED <<state, stop_event, rx, tx, sd, pq>>)]_vars

\* C2: start_voice_receive has returned True and set VOICE_RECEIVE while the
\* TX task of a transmit session is still running
C2_StartedInSession ==
    /\ c_op = "start_voice_receive" /\ c_pc = "returned" /\ c_ret = "True"
    /\ state = "VOICE_RECEIVE" /\ Total(tx) > 0
    /\ callbacks = "Modem"

\* C3: a start_voice_* called while the mode is not VOICE returns False at
\* once: the state and the stop reason keep their values, nothing is written
\* to the transport and no task is created.
C3_FailsOutsideVoiceMode ==
    [][(c_pc = "idle" /\ c_op' \in StartOps /\ mode # "VOICE")
         => /\ c_pc' = "returned" /\ c_ret' = "False"
            /\ UNCHANGED <<state, mode, stop_event, write_lock, out_data, lock_queue, waiter,
                           rx, tx, sd, pq, cb>>]_vars

\* C3: a start_voice_* has returned False from its mode check
C3_Refused ==
    /\ c_op \in StartOps /\ c_pc = "returned" /\ c_ret = "False"
    /\ c_step = 1
    /\ mode # "VOICE"

(***************************************************************************)
(* The write lock.                                                         *)
(***************************************************************************)
\* C6: at most one task is between handing data to the transport and the end
\* of its drain.
C6_OneWriter == Draining <= 1

\* C6: a task is draining while another waits for the lock
C6_Contended == Draining = 1 /\ LockWaiters >= 1

(***************************************************************************)
(* The state machine.                                                      *)
(***************************************************************************)
\* the caller's step that ends set_mode(VOICE) with success
VoiceModeSet == c_pc = "r_wait" /\ c_op = "set_mode" /\ c_arg = "VOICE" /\ c_ret' = "True"

C9_FailsWhileLoopReads ==
    [][(c_pc = "idle" /\ c_op' \in StartOps /\ el_pc = "read")
         => /\ c_pc' = "returned" /\ c_ret' = "False"
            /\ UNCHANGED <<write_lock, out_data, lock_queue, waiter>>]_vars

\* C9: a start_voice_* has written its command and raised from its read while
\* the event loop is blocked in its own
C9_Raced ==
    /\ c_op \in StartOps /\ c_pc = "returned" /\ c_ret = "raise"
    /\ el_pc = "read" /\ waiter = "el"

(***************************************************************************)
(* The supervision of the event loop.                                      *)
(***************************************************************************)
\* C10: when the done callbacks of an event loop task run, a task that ended
\* with an exception is replaced by a new task, which becomes the current
\* loop; after a task that returned or was cancelled no task is started.
C10_RestartOnException ==
    [][(el_pc \in ElDone /\ el_pc' # el_pc) =>
         IF el_pc = "done_exc"
         THEN el_pc' = "new" /\ event_loop' = "task" /\ el_origin' = "restart"
         ELSE el_pc' \notin ElLive /\ event_loop' = event_loop /\ el_origin' = el_origin]_vars

\* C10: the current loop task is one the supervisor started
C10_Restarted == el_origin = "restart" /\ event_loop = "task" /\ el_pc \in ElLive

(***************************************************************************)
(* The end of a session.                                                   *)
(***************************************************************************)
\* C5 as stated: once a stop reason is set in an active session, the state
\* eventually is VOICE_COMMAND again with every task of the session ended.
C5_SessionEnds ==
    (stop_event # "None" /\ state \in VoiceStates)
        ~> (state = "VOICE_COMMAND" /\ SessionTasks = 0)

\* C5: a stop reason is set, the state is a voice sub-state and no task of
\* the session is left to end it
C5_Stuck == stop_event # "None" /\ state \in VoiceStates /\ SessionTasks = 0

(***************************************************************************)
(* The command engine.                                                     *)
(***************************************************************************)
\* C7 as stated: the result code of the response returned for a command is
\* the result code the modem issued for it, and never an unsolicited line.
C7_ResultIsIssued ==
    \A i \in 1..Len(s_responses) :
        /\ s_responses[i].result_code \notin Unsolicited
        /\ i <= Len(m_issued) /\ s_responses[i].result_code = m_issued[i]

\* C7: send has returned a response whose result code is an unsolicited line
C7_UnsolicitedReturned ==
    /\ s_pc = "returned"
    /\ \E i \in 1..Len(s_responses) : s_responses[i].result_code \in Unsolicited

\* C8: send makes one transport write; when it returns, it has one response
\* per command, the i-th with the i-th command as it was written (without
\* the terminator) as its command text, as a list
\* for two commands or more and as the response itself for one command.
C8_OneWriteOrderedResponses ==
    /\ s_writes <= 1
    /\ \A i \in 1..Len(s_responses) :
          i <= Len(s_cmds) /\ s_responses[i].cmd = Strip(s_cmds[i])
    /\ s_pc = "returned" =>
          /\ s_writes = 1
          /\ Len(s_responses) = Len(s_cmds)
          /\ s_ret.items = s_responses
          /\ s_ret.list = (Len(s_cmds) >= 2)

\* C8: send has returned the responses of two different commands, read from a
\* stream with an unsolicited line in it
C8_TwoReturned ==
    /\ s_pc = "returned"
    /\ Len(s_cmds) = 2 /\ s_cmds[1] # s_cmds[2]
    /\ s_ret.list /\ Len(s_ret.items) = 2
    /\ m_unsol > 0

(***************************************************************************)
(* Stopping the event loop.                                                *)
(***************************************************************************)
\* C11 as stated: a stop_event_loop() called on a running event loop, which
\* awaits the loop task, eventually returns, and then the task has ended and
\* the modem holds no event loop task.
C11_StopReturns ==
    (c_op = "stop_event_loop" /\ c_pc = "await_loop")
        ~> (c_op = "stop_event_loop" /\ c_pc = "returned" /\ c_ret = "None"
            /\ event_loop = "None" /\ el_pc = "none")

\* C11: stop_event_loop awaits a loop task that it has not cancelled and that
\* is blocked in its read
C11_NotCancelled ==
    /\ c_op = "stop_event_loop" /\ c_pc = "await_loop"
    /\ el_pc = "read" /\ ~el_cancel /\ running

(***************************************************************************)
(* The audio of a session.                                                 *)
(***************************************************************************)
\* C12 as stated: when the session has ended, the audio is what the modem
\* sent with every <DLE><x> pair removed and every <DLE><DLE> replaced by one
\* <DLE>, the bytes received after the stop reason was set included.
C12_AudioUnshielded == Total(rx) = 0 => a_audio = Sub(a_in)

\* C12: the session has ended and the audio holds a shielded pair as the
\* modem sent it
C12_PairInAudio ==
    /\ Total(rx) = 0 /\ state = "VOICE_COMMAND"
    /\ Len(a_audio) > Len(Sub(a_in))

(***************************************************************************)
(* Faults in a session task.                                               *)
(***************************************************************************)
\* C13 as stated: when the RX task of a receive or duplex session has ended
\* by an exception (the state is still the voice sub-state and no RX task is
\* left), the state returns to VOICE_COMMAND all the same and a caller waiting
\* in voice_end() is released.
C13_FaultIsolated ==
    (state \in {"VOICE_RECEIVE", "VOICE_DUPLEX"} /\ Total(rx) = 0)
        ~> (state = "VOICE_COMMAND" /\ c_pc # "voice_end")

\* C13: the RX task has raised and the caller is waiting in voice_end()
C13_FaultedWaiting ==
    /\ c_op = "voice_end" /\ c_pc = "voice_end"
    /\ state \in {"VOICE_RECEIVE", "VOICE_DUPLEX"} /\ Total(rx) = 0

(***************************************************************************)
(* voice_end.                                                              *)
(***************************************************************************)
\* C14: voice_end() called in a voice sub-state waits, and returns only in a
\* step in which the state is VOICE_COMMAND; called in any other state it
\* returns at once; no step of voice_end changes the state or the stop reason.
C14_VoiceEndWaits ==
    [][/\ (c_pc = "idle" /\ c_op' = "voice_end") =>
            /\ IF state \in VoiceStates
               THEN c_pc' = "voice_end"
               ELSE c_pc' = "returned" /\ c_ret' = "None"
            /\ UNCHANGED <<state, stop_event>>
       /\ (c_pc = "voice_end" /\ c_pc' # "voice_end") =>
            /\ state = "VOICE_COMMAND"
            /\ c_pc' = "returned" /\ c_ret' = "None"
            /\ UNCHANGED <<state, stop_event>>]_vars

\* C14: voice_end() has returned after polling through the end of a session
C14_ReleasedAfterWait ==
    /\ c_op = "voice_end" /\ c_pc = "returned" /\ c_step = 2
    /\ state = "VOICE_COMMAND" /\ stop_event # "None"

(***************************************************************************)
(* set_mode.                                                               *)
(***************************************************************************)
\* C15 as stated: set_mode(m) returns True and records m exactly when the
\* modem answers the mode command with OK; otherwise it returns False and the
\* recorded mode is what it was.
C15_ModeFollowsAnswer ==
    (c_op = "set_mode" /\ c_pc = "returned") =>
        /\ c_ret \in {"True", "False"}
        /\ c_ret = "True" => (m_issued = <<"OK">> /\ mode = c_arg)
        /\ c_ret = "False" => (mode = "DATA" /\ (m_issued # <<>> => m_issued[1] # "OK"))

\* C15: set_mode(VOICE) has returned False and left the recorded mode DATA,
\* and the modem has answered the mode command with OK
C15_RefusedThoughOk ==
    /\ c_op = "set_mode" /\ c_arg = "VOICE" /\ c_pc = "returned" /\ c_ret = "False"
    /\ mode = "DATA"
    /\ m_issued = <<"OK">>

(***************************************************************************)
(* The commands that start a session.                                      *)
(***************************************************************************)
\* C16 as stated: a start_voice_* that has sent its commands returns True,
\* having started the session, only if the gain command was answered OK and
\* the start command CONNECT; otherwise it returns False and its last step
\* leaves the state, the stop reason and the session tasks as they were.
C16_StartsOnOkAndConnect ==
    [][(c_op \in StartOps /\ c_pc = "r_wait" /\ c_pc' = "returned") =>
         IF c_codes' = <<"OK", "CONNECT">>
         THEN c_ret' = "True" /\ state' = NewState(c_op)
         ELSE /\ c_ret' = "False"
              /\ UNCHANGED <<state, stop_event, rx, tx, sd, pq>>]_vars

\* C16: a start_voice_* has returned True and started its session although
\* the gain command was answered ERROR
C16_StartedWithoutGain ==
    /\ c_op \in StartOps /\ c_pc = "returned" /\ c_ret = "True"
    /\ c_codes = <<"ERROR", "CONNECT">>
    /\ state = NewState(c_op) /\ Total(rx) > 0

(***************************************************************************)
(* send_audio_file.                                                        *)
(***************************************************************************)
\* C17 as stated: send_audio_file returns True and adds one item to the
\* playback queue when it is given a valid WAV file in VOICE_TRANSMIT or
\* VOICE_DUPLEX; in every other case (no file, another state, a missing file,
\* a file that is not a valid WAV) it returns False and adds nothing; it
\* never changes the state, the stop reason or the session tasks.
C17_FalseOrOneItem ==
    [][(c_pc = "idle" /\ c_op' = "send_audio_file") =>
         /\ c_pc' = "returned"
         /\ IF c_arg' = "wav" /\ state \in {"VOICE_TRANSMIT", "VOICE_DUPLEX"}
            THEN c_ret' = "True" /\ play_queue' = play_queue + 1
            ELSE c_ret' = "False" /\ play_queue' = play_queue
         /\ UNCHANGED <<state, stop_event, rx, tx, sd, pq>>]_vars

\* C17: send_audio_file has raised on an empty file during a transmit or
\* duplex session
C17_RaisedOnEmptyFile ==
    /\ c_op = "send_audio_file" /\ c_arg = "empty"
    /\ c_pc = "returned" /\ c_ret = "raise"
    /\ state \in {"VOICE_TRANSMIT", "VOICE_DUPLEX"}

(***************************************************************************)
(* The dispatch of events.                                                 *)
(***************************************************************************)
\* C18 as stated: the event read by the loop has its callback awaited when it
\* is a ring event (the ring callback), a call event, with DATE and TIME and
\* without MSG_WAITING (the call callback), or a message-waiting event (the
\* message callback); for any other event no callback is entered.
C18_OneCallbackByClass ==
    [][(el_pc = "read" /\ <<el_pc, el_cb, e_event>>' # <<el_pc, el_cb, e_event>>) =>
         IF IsRing(e_event') THEN el_pc' = "callback" /\ el_cb' = "ring"
         ELSE IF IsCall(e_event') THEN el_pc' = "callback" /\ el_cb' = "call"
         ELSE IF IsMessageEvent(e_event') THEN el_pc' = "callback" /\ el_cb' = "mesg"
         ELSE el_pc' # "callback"]_vars

\* C18: a call event given as text (DATE=..., TIME=... without " = ") has
\* ended the loop task with an exception, no callback having been called
C18_CallEventLost ==
    /\ el_pc = "done_exc" /\ el_cb = "none"
    /\ e_event.form = "text" /\ IsCall(e_event)

(***************************************************************************)
(* The terminator of a session.                                            *)
(***************************************************************************)
\* C19 as stated, for the type of the terminator: a terminator handed to the
\* transport is the one of the session that was started, <DLE>! (END_RECORD)
\* for receive, <DLE>^ (END_DUPLEX) for duplex and <DLE><ETX> (END_STREAM)
\* for transmit, whatever the event loop does in between.
C19_TerminatorOfSession ==
    [][(out_data' \in Terminators /\ out_data' # out_data) =>
         out_data' = (IF c_op = "start_voice_receive" THEN "END_RECORD"
                      ELSE IF c_op = "start_voice_duplex" THEN "END_DUPLEX"
                      ELSE "END_STREAM")]_vars

\* C19: the RX task of a duplex or transmit session is writing END_RECORD,
\* the event loop having set the state to WAITING_EVENT
C19_WrongTerminator ==
    /\ c_op \in {"start_voice_duplex", "start_voice_transmit"} /\ c_ret = "True"
    /\ out_data = "END_RECORD" /\ rx["drain"] > 0
    /\ state = "WAITING_EVENT"

(***************************************************************************)
(* The codes by which the modem ends the stream.                           *)
(***************************************************************************)
\* C20 as stated: when the RX task decodes a session-ending code sent by the
\* modem (<DLE>!, <DLE>^ or <DLE><ETX>) in the data of a read, the stop
\* reason is latched and the RX loop exits, as for <DLE>b.
C20_EndCodeLatches ==
    [][(/\ rx["read"] + rx["read_dle"] > 0
        /\ Len(a_codes') > Len(a_codes)
        /\ \E i \in (Len(a_codes) + 1)..Len(a_codes') : a_codes'[i] = "ETX")
       => (stop_event' # "None" /\ rx'["read"] = 0)]_vars

\* C20: the RX task has decoded a session-ending code and is in its next
\* read, no stop reason set
C20_EndCodeIgnored ==
    /\ \E i \in 1..Len(a_codes) : a_codes[i] = "ETX"
    /\ stop_event = "None"
    /\ rx["read"] > 0

(***************************************************************************)
(* Escape pairs and the cuts of the reads.                                 *)
(***************************************************************************)
\* C21: however the reads of the RX loop cut the stream, a cut between a
\* <DLE> and its payload included, the audio decoded and the codes
\* recognised from the bytes the loop has taken are those of the same bytes
\* uncut; a trailing <DLE> is held back until the next byte has been read.
C21_CutInvariant ==
    rx["read"] + rx["read_dle"] + rx["result"] > 0 =>
        LET taken == SubSeq(a_in, 1, Len(a_in) - Len(a_rest) - Len(a_data))
        IN /\ a_audio = Sub(taken)
           /\ a_codes = Codes(taken)
           /\ rx["read_dle"] = 0 => a_data = <<>>

\* C21: after some audio the RX task holds a chunk cut between a <DLE> and
\* its payload, the code b, which is the next byte to read
C21_CutInsidePair ==
    /\ rx["read_dle"] > 0
    /\ EndsWithDle(a_data)
    /\ a_audio # <<>>
    /\ a_rest # <<>> /\ Head(a_rest) = "b"
    /\ WellShielded(SubSeq(a_data, 1, Len(a_data) - 1))

(***************************************************************************)
(* The DTMF shielding.                                                     *)
(***************************************************************************)
\* C22 as stated: dtmf_callback is called once with the digit d for each
\* run of three consecutive shielded codes <DLE>/ <DLE>d <DLE>~ the RX task
\* has decoded, in their order, and for nothing else: not when another
\* shielded code stands between them.
C22_DtmfOncePerSequence ==
    LET at == {i \in 1..(Len(a_codes) - 2) :
                  /\ a_codes[i] = "/"
                  /\ a_codes[i + 1] \in Digits
                  /\ a_codes[i + 2] = "~"}
    IN /\ Len(a_dtmf) = Cardinality(at)
       /\ \A k \in 1..Len(a_dtmf) :
              \E i \in at : /\ Cardinality({j \in at : j <= i}) = k
                            /\ a_dtmf[k] = a_codes[i + 1]

\* C22: with the hooks of Modem, dtmf_callback has been called although the
\* digit and the closing ~ were not consecutive codes
C22_DispatchedAcrossCode ==
    /\ callbacks = "Modem"
    /\ a_dtmf # <<>>
    /\ ~ \E i \in 1..(Len(a_codes) - 2) :
            a_codes[i] = "/" /\ a_codes[i + 1] \in Digits /\ a_codes[i + 2] = "~"

(***************************************************************************)
(* Silence detection during playback.                                      *)
(***************************************************************************)
\* C23 as stated: a threshold that is set holds the suspended (negative)
\* marker exactly while a playback consumer is between taking an item to
\* play and the end of the sleep for its duration, so that the silence
\* callback, fired on a positive threshold only, is never fired meanwhile,
\* and the threshold is positive again when the playback is over.
C23_SuspendedWhilePlaying ==
    silence_seconds # "None" =>
        (silence_seconds = "neg" <=> pq["lock"] + pq["drain"] + pq["sleep"] > 0)

\* C23: the threshold is positive while a consumer sleeps for the duration of
\* its item, and the silence detector is running
C23_ListeningWhilePlaying ==
    /\ pq["sleep"] > 0
    /\ SdOn
    /\ sd["sleep"] > 0
    /\ stop_event = "None"

(***************************************************************************)
(* The cancellation of the event loop task.                                *)
(***************************************************************************)
\* C24 as stated: stop_event_loop requests the cancellation of the loop task
\* only while the task is blocked in its idle read; never while a ring, call
\* or message callback is in progress, nor before the task has run.
C24_CancelOnlyInRead ==
    [][(el_cancel' /\ ~el_cancel) => el_pc = "read"]_vars

\* C24: the cancellation is pending on a loop task that is inside a callback
C24_CancelInCallback ==
    /\ el_cancel
    /\ el_pc = "callback"
    /\ state = "WAITING_EVENT"

(***************************************************************************)
(* Events that do not parse.                                               *)
(***************************************************************************)
\* C25: when the event loop reads data that Event.from_bytes cannot parse,
\* no callback is awaited, the loop task neither ends nor is restarted, the
\* state is WAITING_EVENT and the task is in its read again, where the next
\* event is handled like any other.
C25_BrokenEventSkipped ==
    [][(el_pc = "read" /\ e_event' # e_event /\ e_event'.form = "broken")
         => /\ el_pc' = "read"
            /\ el_cb' = "none"
            /\ state' = "WAITING_EVENT"
            /\ waiter' = "el"
            /\ UNCHANGED <<event_loop, el_origin, el_cancel, cb>>]_vars

\* C25: the last event read did not parse and the loop task, never
\* restarted, waits for the next one
C25_AfterBrokenEvent ==
    /\ e_event.form = "broken"
    /\ el_pc = "read"
    /\ el_origin = "start"
    /\ state = "WAITING_EVENT"

(***************************************************************************)
(* Responses that do not parse.                                            *)
(***************************************************************************)
\* C26 as stated: a response whose last segment is not a known result code
\* is dropped inside send: no exception leaves send.
C26_SendNeverRaises == s_pc # "raised"

\* C26: send has raised on the response to its first command, and the result
\* code the modem issued for that command is left unread in the stream
C26_RaisedBeforeResult ==
    /\ s_pc = "raised"
    /\ s_responses = <<>>
    /\ s_stream # <<>> /\ Head(s_stream).body \in Final

(***************************************************************************)
(* The set of background tasks.                                            *)
(***************************************************************************)
\* C27: a task made by create_background_task is in _background_tasks from
\* its creation until it has ended, and is out of the set once its done
\* callback has run, whether it ended normally, by an exception or by its
\* cancellation.
C27_HeldUntilDone ==
    \A i \in 1..Len(b_tasks) :
        /\ b_tasks[i].pc \in {"running", "done"} => i \in b_set
        /\ b_tasks[i].pc = "finished" => i \notin b_set

\* C27: of three tasks one has ended by an exception and one by its
\* cancellation, both are out of the set, and the third is running, in it
C27_RemovedAfterFailure ==
    /\ \E i \in 1..Len(b_tasks) : b_tasks[i] = [pc |-> "finished", outcome |-> "exc"]
    /\ \E i \in 1..Len(b_tasks) : b_tasks[i] = [pc |-> "finished", outcome |-> "cancelled"]
    /\ \E i \in 1..Len(b_tasks) : b_tasks[i].pc = "running" /\ b_set = {i}

(***************************************************************************)
(* The session's writes after its terminator.                              *)
(***************************************************************************)
\* the terminator of the running session has been handed to the transport by
\* its RX task (modem.py 536-538) or its TX task (modem.py 568-571) and the
\* modem's answer to it is not read yet
TerminatorWritten ==
    rx["drain"] + rx["result"] + tx["end_drain"] + tx["settle"] + tx["result"] > 0

\* C28 as stated: once the terminator of a session is written, no silence
\* filler and no playback buffer is handed to the transport after it.
C28_NothingAfterTerminator ==
    [][(write_lock' \in {"tx", "pq"} /\ write_lock # write_lock'
          /\ out_data' \in {"filler", "audio"})
        => ~TerminatorWritten]_vars

\* C28: the TX task of a transmit session has written END_STREAM and waits
\* for the modem's answer, the caller has started a reception meanwhile, and
\* the playback consumer of the transmit session hands a buffer to the
\* transport
C28_AudioAfterTerminator ==
    /\ tx["settle"] + tx["result"] > 0
    /\ state = "VOICE_RECEIVE" /\ stop_event = "None"
    /\ write_lock = "pq" /\ out_data = "audio"

(***************************************************************************)
(* The tasks of a session and the next session.                            *)
(***************************************************************************)
\* C29 as stated: when a session is started (start_voice_* resets the stop
\* reason and creates the RX task of the session) no RX, TX, silence
\* detector or playback consumer task of an earlier session is running.
C29_NoTaskAtStart ==
    [][rx'["new"] > rx["new"]
        => Total(rx) + Total(tx) + Total(sd) + Total(pq) = 0]_vars

\* C29: a reception has just been started, its RX task has not run yet, and
\* the playback consumer of the session before it still waits on the
\* queue, the TX task of that session having ended
C29_ConsumerOutlivesSession ==
    /\ state = "VOICE_RECEIVE" /\ stop_event = "None"
    /\ rx["new"] = 1 /\ Total(rx) = 1
    /\ Total(tx) = 0
    /\ pq["get"] = 1

(***************************************************************************)
(* The playback queue at the end of a session.                             *)
(***************************************************************************)
\* C30 as stated: once a session has ended (the state is back to
\* VOICE_COMMAND) and its playback consumer has terminated, the playback
\* queue is empty: no accepted item is left for a later session.
C30_QueueEmptyAfterSession ==
    (state = "VOICE_COMMAND" /\ Total(pq) = 0) => play_queue = 0

\* C30: the session has ended and all its tasks have terminated, the caller
\* is idle, and an item that send_audio_file accepted during the session is
\* still in the queue
C30_ItemLeftInQueue ==
    /\ state = "VOICE_COMMAND"
    /\ Total(rx) + Total(tx) + Total(sd) + Total(pq) = 0
    /\ c_pc = "idle"
    /\ play_queue > 0

(***************************************************************************)
(* Blocking a call.                                                        *)
(***************************************************************************)
\* block_call has returned: call_callback has logged the blocked call
BlockCallDone == k_pc = "done" /\ BlockReason(k_call) # "None"

\* C31 as stated: with a voice block action, hang_up is called only when
\* no session is running (the state of a started session is back to
\* VOICE_COMMAND), and when block_call has returned no session is active
\* (the state is none of the three session states), the modem's caller ID
\* reporting is on again and the recorded mode is the configured one.
C31_HangUpAfterSessionThenSetUp ==
    /\ (k_action \in BlockAction /\ k_pc = "hang_up" /\ c_pc # "idle")
         => /\ state \notin VoiceStates
            /\ k_voice => state = "VOICE_COMMAND"
    /\ (k_action \in BlockAction /\ BlockCallDone)
         => /\ state \notin VoiceStates
            /\ k_vcid = "on"
            /\ mode = ModeOf(k_action)

\* C31: block_call has returned after a recording: the session had started
\* and ended, the soft reset was done, and the recorded mode is DATA
C31_SetUpRefused ==
    /\ k_action = "RECORD" /\ BlockCallDone /\ k_voice
    /\ state = "INITIALIZED"
    /\ mode = "DATA"

(***************************************************************************)
(* The call log.                                                           *)
(***************************************************************************)
\* call_callback has ended: it has returned or an exception has left it
CallbackEnded == k_pc \in {"done", "raised"}

\* C32 as stated: the call delivered to call_callback is logged exactly
\* once, with blocked true exactly when block_reason gives a reason, and
\* not before call_callback has come to its end, so for a blocked call not
\* before the blocking action is complete.
C32_LoggedOnceAtTheEnd ==
    /\ CallbackEnded =>
           k_log = <<[call |-> k_call, blocked |-> BlockReason(k_call) # "None"]>>
    /\ ~CallbackEnded => k_log = <<>>

\* C32: the call was to be blocked, its recording has been made and the
\* line is hung up, an exception has left block_call and call_callback,
\* and the call is not in the log
C32_BlockedCallNotLogged ==
    /\ k_pc = "raised"
    /\ BlockReason(k_call) # "None"
    /\ k_action = "RECORD" /\ k_voice /\ state = "VOICE_COMMAND"
    /\ k_log = <<>>
====
